---- MODULE Spec2Model ----
(***************************************************************************)
(* Kernel of the transaction engine: call frames (engine/call_frame.rs),   *)
(* bucket and fungible-vault containers (blueprints/resource/bucket.rs,    *)
(* blueprints/resource/fungible/fungible_vault.rs), the costing hook       *)
(* (system_modules/costing/costing_module.rs) and, where the repository's  *)
(* code is not part of the sources at hand (track, fee reserve, executor), *)
(* their contract as the specification states it.                          *)
(*                                                                         *)
(* A Decimal is modelled as its integer count of 10^-18 sub-units.         *)
(***************************************************************************)
EXTENDS Integers, Sequences, FiniteSets, TLC

\* ------------------------------------------------------------------ bounds
MaxBuckets == 2        \* bucket ids the id allocator hands out in one transaction
MaxProofs == 2         \* proof ids the id allocator hands out in one transaction
MAX_CALL_DEPTH == 4    \* call_frame.rs:1109 (value chosen for the model)
MaxCostUnits == 6      \* max_cost_units of the fee reserve
MaxFeeLocks == 2       \* fee locks one transaction takes
MaxVaults == 1         \* vault ids the id allocator hands out in one transaction
MaxKvStores == 1       \* key-value store ids the id allocator hands out in one transaction
MaxComponents == 1     \* component addresses the id allocator hands out in one transaction
SystemLoanUnits == 3   \* system_loan_units of the fee reserve

\* ---------------------------------------------------------------- entities
RADIX_TOKEN == "XRD"
OtherToken == "TOK"
Resources == {RADIX_TOKEN, OtherToken}

DecimalScale == 18
RECURSIVE Pow10(_)
Pow10(n) == IF n = 0 THEN 1 ELSE 10 * Pow10(n - 1)

\* divisibility substate of each fungible resource manager
Divisibility(r) == IF r = RADIX_TOKEN THEN 18 ELSE 17

BucketNames == <<"b1", "b2", "b3", "b4", "b5">>
ProofNames == <<"p1", "p2", "p3", "p4", "p5">>
BucketIds == {BucketNames[i] : i \in 1..MaxBuckets}
ProofIds == {ProofNames[i] : i \in 1..MaxProofs}
VaultNames == <<"v1", "v2", "v3">>
KvStoreNames == <<"k1", "k2", "k3">>
\* vaults and key-value stores created in the transaction
HeapVaultIds == {VaultNames[i] : i \in 1..MaxVaults}
KvStoreIds == {KvStoreNames[i] : i \in 1..MaxKvStores}
ComponentNames == <<"c1", "c2">>
\* components instantiated in the transaction
NewComponentIds == {ComponentNames[i] : i \in 1..MaxComponents}
HeapIds == BucketIds \cup ProofIds \cup HeapVaultIds \cup KvStoreIds \cup NewComponentIds

Components == {"CA", "CB"}
Vaults == {"VA", "VB", "VT"}
\* the component whose state stores the vault
VaultOwner(v) == IF v = "VB" THEN "CB" ELSE "CA"

\* the virtual badge of the key that signed the transaction
SignerBadge == "ECDSA"
\* the methods of a component: "withdraw" is protected by an auth rule that
\* requires the component's badge, the signer's key for CA and a proof of
\* the other token for CB; "method" is public
Methods == {"method", "withdraw"}
OwnerBadge(c) == IF c = "CA" THEN SignerBadge ELSE OtherToken
VaultResource(v) == IF v = "VT" THEN OtherToken ELSE RADIX_TOKEN

InfoOf(c) == IF c = "CA" THEN "CA.info" ELSE "CB.info"
StateOf(c) == IF c = "CA" THEN "CA.state" ELSE "CB.state"
PackageId == "PKG"
SubstateIds == Vaults \cup Resources \cup {PackageId}
                 \cup {InfoOf(c) : c \in Components} \cup {StateOf(c) : c \in Components}

NoAmounts == [a \in {} |-> 0]
DeadNode == [kind |-> "dead", res |-> "", liquid |-> 0, locked |-> NoAmounts,
             amount |-> 0, src |-> "", restricted |-> FALSE]

VARIABLES
    frames,      \* the call stack: frames[1] is the root frame (depth 0)
    heap,        \* HeapIds -> node (bucket, proof, vault, kvstore or dead/unallocated)
    nextBucket,  \* id allocator: number of bucket ids handed out
    nextProof,   \* id allocator: number of proof ids handed out
    locks,       \* track: SubstateIds -> [mut, read] outstanding lock handles
    txv,         \* track: the transaction's view of each vault substate
    base,        \* track: the base state (store plus force-writes)
    touched,     \* track: vault substates written in this transaction
    fee,         \* fee reserve
    outcome,     \* "running", "success", "failure", "rejected"
    err,         \* the RuntimeError that ended the transaction ("" if none)
    committed,   \* vault liquid balances after the receipt was applied
    hist,        \* observations kept for the properties (not program state):
                 \* proofs sent and returned, vaults put into, written and
                 \* queried before they locked a fee, proofs dropped by the
                 \* clearing of an auth zone, the operation that failed
    parent,      \* HeapIds -> where a node that no frame owns is kept: the
                 \* component whose state names it, "track" once it was
                 \* globalized, "" otherwise
    trace,       \* the ExecutionTraceModule
    calls,       \* the kernel calls in progress that the module's hooks were
                 \* told of, and a tally of the lock_fee calls among them
    gen,         \* the manifest generator: name resolver, id validator, the
                 \* instructions generated and the one generated last
    bkt,         \* one bucket or vault of the resource blueprints: its
                 \* substates and the lock handles open on them
    obs,         \* observations of the invocations on bkt (not program state)
    wr           \* a frame that writes one substate: the nodes it owns, the
                 \* children the substate's value stores, and the last write

kernel == <<frames, heap, nextBucket, nextProof, locks, txv, base, touched, fee,
            outcome, err, committed, hist, parent>>
vars == <<kernel, gen, bkt, obs, wr>>

\* ------------------------------------------------------------ initial store
\* liquid balances of the vaults in the substate store before the transaction
StoreLiquid(v) == IF v = "VA" THEN 12 ELSE IF v = "VB" THEN 3 ELSE 20

CostUnitPrice == 1     \* cost_unit_price of the fee reserve (tip_percentage 0)
InvokeCost == 1        \* fee table: cost units charged for one invocation
ClearCost == 0         \* fee table: cost units charged for clearing an auth zone

\* --------------------------------------------------- resource containers
\* LockedFungibleResource::amount: the largest outstanding locked amount
RECURSIVE MaxOf(_)
MaxOf(S) == IF S = {} THEN 0
            ELSE LET x == CHOOSE y \in S : TRUE
                     m == MaxOf(S \ {x})
                 IN IF S = {x} THEN x ELSE IF x > m THEN x ELSE m
LockedAmount(locked) == MaxOf(DOMAIN locked)

\* locked.amounts.entry(amount).or_default().add_assign(1)
AddLock(locked, a) ==
    [x \in (DOMAIN locked) \cup {a} |-> IF x \in DOMAIN locked
                                        THEN (IF x = a THEN locked[x] + 1 ELSE locked[x])
                                        ELSE 1]

\* locked.amounts.remove(&amount); if cnt > 1 { insert(amount, cnt - 1) }
RemoveLock(locked, a) ==
    IF locked[a] > 1 THEN [locked EXCEPT ![a] = locked[a] - 1]
    ELSE [x \in (DOMAIN locked) \ {a} |-> locked[x]]

\* faulty variants: the sign is not looked at; the scale is not looked at
check_amount_AllowNegative(amount, divisibility) ==
    amount % Pow10(DecimalScale - divisibility) = 0
check_amount_AnyScale(amount, divisibility) == ~(amount < 0)

\* FungibleVaultBlueprint::check_amount
check_amount(amount, divisibility) ==
    /\ ~(amount < 0)
    /\ amount % Pow10(DecimalScale - divisibility) = 0

\* LiquidFungibleResource::take_by_amount succeeds
CanTakeByAmount(liquid, amount) == ~(liquid < amount)

\* A container (bucket or vault) after FungibleBucket::lock_amount /
\* FungibleVault::lock_amount(amount); the take from liquid must succeed.
LockDelta(c, amount) ==
    IF amount > LockedAmount(c.locked) THEN amount - LockedAmount(c.locked) ELSE 0
CanLockAmount(c, amount) == CanTakeByAmount(c.liquid, LockDelta(c, amount))
lock_amount(c, amount) ==
    [c EXCEPT !.liquid = c.liquid - LockDelta(c, amount),
              !.locked = AddLock(c.locked, amount)]

\* FungibleBucket::unlock_amount / FungibleVault::unlock_amount
unlock_amount(c, amount) ==
    LET after == RemoveLock(c.locked, amount)
        delta == LockedAmount(c.locked) - LockedAmount(after)
    IN [c EXCEPT !.liquid = c.liquid + delta, !.locked = after]

\* BucketBlueprint::get_amount / FungibleVaultBlueprint::get_amount
get_amount(c) == c.liquid + LockedAmount(c.locked)

NewBucket(r, a) == [DeadNode EXCEPT !.kind = "bucket", !.res = r, !.liquid = a]
\* ProofInfoSubstate { restricted: false } with the FungibleProof of the locked amount
NewProof(r, a, from) ==
    [DeadNode EXCEPT !.kind = "proof", !.res = r, !.amount = a, !.src = from]

\* Vault::new of an empty container; PreCommittedKeyValueStore::new
NewVault(r) == [DeadNode EXCEPT !.kind = "vault", !.res = r]
NewKvStore == [DeadNode EXCEPT !.kind = "kvstore"]
NewComponent == [DeadNode EXCEPT !.kind = "component"]

IsBucket(n) == n \in BucketIds /\ heap[n].kind = "bucket"
IsProof(n) == n \in ProofIds /\ heap[n].kind = "proof"
Alive(n) == heap[n].kind # "dead"

\* ------------------------------------------------------------------- track
Unlocked == [mut |-> 0, read |-> 0]

\* Track::acquire_lock: "" when granted, the TrackError otherwise
TrackAcquireError(lk, tch, s, mutable, write_through) ==
    IF lk[s].mut > 0 THEN "Reentrancy"
    ELSE IF lk[s].read > 0 /\ mutable THEN "Reentrancy"
    ELSE IF write_through /\ s \in tch THEN "ValueAlreadyTouched"
    ELSE ""

TrackAcquire(lk, s, mutable) ==
    IF mutable THEN [lk EXCEPT ![s].mut = @ + 1] ELSE [lk EXCEPT ![s].read = @ + 1]

\* Track::release_lock of one handle
TrackRelease(lk, s) ==
    IF lk[s].mut > 0 THEN [lk EXCEPT ![s].mut = @ - 1] ELSE [lk EXCEPT ![s].read = @ - 1]

RECURSIVE ReleaseAll(_, _)
ReleaseAll(lk, S) ==
    IF S = {} THEN lk
    ELSE LET s == CHOOSE x \in S : TRUE IN ReleaseAll(TrackRelease(lk, s), S \ {s})

\* ------------------------------------------------------------- fee reserve
RECURSIVE SumLocks(_, _)
SumLocks(ls, contingent) ==
    IF ls = <<>> THEN 0
    ELSE (IF Head(ls).contingent = contingent THEN Head(ls).amount ELSE 0)
         + SumLocks(Tail(ls), contingent)

Min(a, b) == IF a < b THEN a ELSE b

\* faulty variant: contingent locks count towards the repayment
Repaid_CountContingent(fe) ==
    SumLocks(fe.locks, FALSE) + SumLocks(fe.locks, TRUE) >= CostUnitPrice * SystemLoanUnits

\* the locked non-contingent fee repays the system loan
Repaid(fe) == SumLocks(fe.locks, FALSE) >= CostUnitPrice * SystemLoanUnits

\* faulty variant: the whole budget is open before the loan is repaid
Allowance_NoLoan(fe) == MaxCostUnits

\* cost units the reserve lets the transaction consume in its current phase
Allowance(fe) ==
    IF Repaid(fe) THEN Min(MaxCostUnits, SumLocks(fe.locks, FALSE) \div CostUnitPrice)
    ELSE SystemLoanUnits

\* CostingModule::before_invoke -> apply_execution_cost -> consume_execution
ConsumeOk(fe, depth, cost) == depth = 0 \/ fe.consumed + cost <= Allowance(fe)
Consume(fe, depth, cost) ==
    IF depth = 0 THEN fe ELSE [fe EXCEPT !.consumed = @ + cost]

\* CostingModule::credit_cost_units -> fee_reserve.lock_fee
\* the lock that repays the loan also applies the deferred charges
credit_cost_units(fe, vault_id, amount, contingent) ==
    LET fl == [fe EXCEPT !.locks = Append(@, [vault |-> vault_id, amount |-> amount,
                                              contingent |-> contingent])]
    IN IF ~Repaid(fe) /\ Repaid(fl)
       THEN [fl EXCEPT !.consumed = @ + fl.deferred, !.deferred = 0]
       ELSE fl

\* fee table: the cost units of the charges made when the kernel starts
TxBaseCost == 1
TxPayloadCost(size) == size
TxSignatureVerification(num_signatures) == num_signatures
\* the transaction's payload_len and num_of_signatures, in the fee table's units
payload_len == 0
num_of_signatures == 0

\* CostingModule::apply_deferred_execution_cost -> consume_deferred
apply_deferred_execution_cost(fe, cost) == [fe EXCEPT !.deferred = @ + cost]

\* CostingModule::on_init
on_init(fe) ==
    apply_deferred_execution_cost(
        apply_deferred_execution_cost(
            apply_deferred_execution_cost(fe, TxBaseCost),
            TxPayloadCost(payload_len)),
        TxSignatureVerification(num_of_signatures))

\* finalize: XRD owed for the consumed cost units
FeeDue(fe) == CostUnitPrice * fe.consumed

\* faulty variant: a contingent lock pays whatever the outcome
RECURSIVE Paid_ContingentAlways(_, _, _)
Paid_ContingentAlways(ls, due, success) ==
    IF ls = <<>> THEN <<>>
    ELSE LET l == ls[Len(ls)]
             p == Min(l.amount, due)
         IN Append(Paid_ContingentAlways(SubSeq(ls, 1, Len(ls) - 1), due - p, success), p)

\* faulty variant: a contingent lock pays nothing, the other locks pay the fee
RECURSIVE Paid_ContingentNever(_, _, _)
Paid_ContingentNever(ls, due, success) ==
    IF ls = <<>> THEN <<>>
    ELSE LET l == ls[Len(ls)]
             p == IF l.contingent THEN 0 ELSE Min(l.amount, due)
         IN Append(Paid_ContingentNever(SubSeq(ls, 1, Len(ls) - 1), due - p, success), p)

\* what each fee lock pays: the locks are debited last-locked first; a
\* contingent lock pays only when the transaction commits successfully
RECURSIVE Paid(_, _, _)
Paid(ls, due, success) ==
    IF ls = <<>> THEN <<>>
    ELSE LET l == ls[Len(ls)]
             p == IF l.contingent /\ ~success THEN 0 ELSE Min(l.amount, due)
         IN Append(Paid(SubSeq(ls, 1, Len(ls) - 1), due - p, success), p)

RECURSIVE RefundOf(_, _, _)
RefundOf(ls, paid, v) ==
    IF ls = <<>> THEN 0
    ELSE (IF Head(ls).vault = v THEN Head(ls).amount - Head(paid) ELSE 0)
         + RefundOf(Tail(ls), Tail(paid), v)

\* faulty variant: a rejection persists the force-written base
Receipt_RejectKeepsBase(result, tv, bs, fe) ==
    [v \in Vaults |->
        IF result = "rejected" THEN bs[v].liquid
        ELSE LET view == IF result = "success" THEN tv ELSE bs
                 paid == Paid(fe.locks, FeeDue(fe), result = "success")
             IN view[v].liquid + RefundOf(fe.locks, paid, v)]

\* Balances the receipt leaves in the store: a rejection persists nothing, a
\* commit-failure persists the force-written base only, a commit-success the
\* transaction's view; the unused part of every fee lock is returned.
Receipt(result, tv, bs, fe) ==
    [v \in Vaults |->
        IF result = "rejected" THEN StoreLiquid(v)
        ELSE LET view == IF result = "success" THEN tv ELSE bs
                 paid == Paid(fe.locks, FeeDue(fe), result = "success")
             IN view[v].liquid + RefundOf(fe.locks, paid, v)]

\* ------------------------------------------------------------- call frames
\* zone is the frame's auth zone: the proofs pushed into it (empty in a frame
\* that has none)
Frame(kind, node, fn, amt, flag, owned, locked) ==
    [kind |-> kind, node |-> node, fn |-> fn, amt |-> amt, flag |-> flag,
     owned |-> owned, locked |-> locked, zone |-> {}]

\* CallFrame::new_root: the root frame's auth zone starts with the proof of
\* the transaction's signer
RootFrame == [Frame("root", "", "", 0, FALSE, {}, {}) EXCEPT !.zone = {SignerBadge}]

Depth == Len(frames) - 1
Top == frames[Len(frames)]
Running == outcome = "running" /\ Len(frames) > 0

AllDead == [n \in HeapIds |-> DeadNode]

\* A RuntimeError reaches the executor: every `?` on the way returns early, so
\* the frames are dropped without releasing the locks they hold
\* (call_frame.rs:1794); the transaction's view of the store is discarded down
\* to the force-written base; the receipt is a commit-failure once the loan is
\* repaid and a rejection before.
\* the operation a RuntimeError came from, kept for the properties
Failed(fn, node, amt) ==
    [hist EXCEPT !.failed = [fn |-> fn, node |-> node, amt |-> amt],
                 !.written = IF fn = "lock_fee" THEN @ ELSE {},
                 !.queried = IF fn = "lock_fee" THEN @ ELSE {}]

\* the node ids the data of a failed call or return named
Carrying(h, ids) == [h EXCEPT !.carried = ids]

\* faulty variants: a call-depth error is an abort whatever was locked; a
\* cost-unit error rejects whatever was locked
ErrorOutcome_DepthAborts(e, fe) ==
    IF e = "MaxCallDepthLimitReached" THEN "aborted"
    ELSE IF Repaid(fe) THEN "failure" ELSE "rejected"
ErrorOutcome_CostRejects(e, fe) ==
    IF e = "CostingError" THEN "rejected"
    ELSE IF Repaid(fe) THEN "failure" ELSE "rejected"

\* the receipt's outcome for a transaction that ended in RuntimeError e
ErrorOutcome(e, fe) == IF Repaid(fe) THEN "failure" ELSE "rejected"

Fail(e, lk, tv, bs, fe, h) ==
    LET result == ErrorOutcome(e, fe) IN
    /\ frames' = <<>>
    /\ heap' = AllDead
    /\ locks' = lk
    /\ txv' = bs
    /\ touched' = {}
    /\ base' = bs
    /\ fee' = fe
    /\ err' = e
    /\ outcome' = result
    /\ committed' = Receipt(result, tv, bs, fe)
    /\ hist' = h
    /\ UNCHANGED <<nextBucket, nextProof>>

\* RENode::verify_can_move: a locked bucket and a restricted proof stay put
verify_can_move(n) ==
    IF n.kind = "bucket" THEN LockedAmount(n.locked) = 0
    ELSE IF n.kind = "proof" THEN ~n.restricted
    ELSE TRUE

\* CallFrame::take_available_values: "" or the error of the first value that
\* cannot be taken
TakeError(ids) ==
    IF \E n \in ids : n \notin Top.owned THEN "ValueNotFound"
    ELSE IF \E n \in ids : ~verify_can_move(heap[n]) THEN "CantMove"
    ELSE ""

\* faulty variant: call data may name vaults
process_call_data_AllowVaults(ids) ==
    IF ids \cap KvStoreIds # {} THEN "KeyValueStoreNotAllowed" ELSE ""

\* CallFrame::process_call_data
process_call_data(ids) ==
    IF ids \cap KvStoreIds # {} THEN "KeyValueStoreNotAllowed"
    ELSE IF ids \cap (HeapVaultIds \cup Vaults) # {} THEN "VaultNotAllowed"
    ELSE ""

\* CallFrame::process_return_data; from is the kind of the returning frame
process_return_data(from, ids) ==
    IF ids \cap KvStoreIds # {} THEN "KeyValueStoreNotAllowed"
    ELSE IF from # "resource" /\ ids \cap (HeapVaultIds \cup Vaults) # {} THEN "VaultNotAllowed"
    ELSE ""

\* faulty variant: a proof sent as call data stays as it is
SendValue_Unchanged(n) == n

\* call_frame.rs:1140-1148: a proof sent as call data becomes restricted
SendValue(n) == IF n.kind = "proof" THEN [n EXCEPT !.restricted = TRUE] ELSE n

\* call_frame.rs:1804-1808: a received value is inserted as it is
ReceiveValue(n) == n

\* call_frame.rs:1109 and CostingModule::before_invoke
InvokeError(fe, cost) ==
    IF Depth = MAX_CALL_DEPTH THEN "MaxCallDepthLimitReached"
    ELSE IF ~ConsumeOk(fe, Depth, cost) THEN "CostingError"
    ELSE ""

\* faulty variant: the values given to the callee stay in the caller as well
Push_KeepInCaller(f) == frames' = Append(frames, f)

\* call_frame.rs:1130-1136, 1780-1790: the taken values leave the caller's
\* owned_values and start the callee's
Push(f) == frames' = Append([frames EXCEPT ![Len(frames)].owned = @ \ f.owned], f)

ArgSets(S) == {{}} \cup {{n} : n \in S}

\* the node ids the running code can write into call or return data: the
\* values its frame owns and the vaults stored in its component
\* (the bodies of this model put no component into call or return data)
Nameable == (Top.owned \ NewComponentIds) \cup {v \in Vaults : VaultOwner(v) = Top.node}

Pop(rets) ==
    frames' = [SubSeq(frames, 1, Len(frames) - 1)
                   EXCEPT ![Len(frames) - 1].owned = @ \cup rets]

\* ---------------------------------------------------------------- actions
\* The executor invokes the transaction processor from the root frame.
InvokeTransactionProcessor ==
    /\ Running /\ Top.kind = "root"
    /\ frames' = Append(frames, Frame("txproc", "", "run", 0, FALSE, {}, {}))
    /\ fee' = Consume(fee, Depth, InvokeCost)
    /\ UNCHANGED <<heap, nextBucket, nextProof, locks, txv, base, touched,
                   outcome, err, committed, hist>>

\* faulty variant: the result of locking the component is not looked at
ComponentLockError_Unchecked(lk, c) == ""

\* call_frame.rs:1444-1499: lock the component's info and state substates
ComponentLockError(lk, c) ==
    IF TrackAcquireError(lk, {}, InfoOf(c), TRUE, FALSE) = "Reentrancy"
        THEN "ComponentReentrancy"
    ELSE IF TrackAcquireError(lk, {}, StateOf(c), TRUE, FALSE) = "Reentrancy"
        THEN "ComponentReentrancy"
    ELSE ""

ComponentLocks(c) == {InfoOf(c), StateOf(c), PackageId}

\* Component::initialize_method (model/component.rs:198-211): the rule of
\* the method, if the component has one for it
method_authorization(c, fn) ==
    IF fn = "withdraw" THEN <<"Protected", OwnerBadge(c)>> ELSE <<"Public">>

\* the badges an auth zone proves: the resources of the proofs it holds
ZoneBadges(z, h) == {IF p \in ProofIds THEN h[p].res ELSE p : p \in z}

\* call_frame.rs:1727-1743: the auth zones consulted for a call are the
\* calling frame's own and, for a component method, its caller's
AuthZones == Top.zone \cup (IF Len(frames) > 1 THEN frames[Len(frames) - 1].zone ELSE {})

\* faulty variant: every rule counts as satisfied
AuthorizationError_Unchecked(auth, badges) == ""

\* MethodAuthorization::check as call_frame.rs:1751-1759 uses it
AuthorizationError(auth, badges) ==
    IF auth[1] = "Protected" /\ auth[2] \notin badges THEN "AuthorizationError" ELSE ""

\* invoke_snode(SNodeRef::Scrypto(ScryptoActor::Component(c))) up to the start
\* of the callee frame
CallMethod(c, fn, args) ==
    /\ Running /\ Top.kind \in {"txproc", "scrypto"}
    /\ args \in ArgSets(Nameable)
    /\ LET fe == Consume(fee, Depth, InvokeCost)
           e1 == InvokeError(fee, InvokeCost)
           e4 == process_call_data(args)
           e2 == TakeError(args)
           e3 == ComponentLockError(locks, c)
           e5 == AuthorizationError(method_authorization(c, fn), ZoneBadges(AuthZones, heap))
           lk == TrackAcquire(TrackAcquire(TrackAcquire(locks, InfoOf(c), TRUE),
                                           StateOf(c), TRUE), PackageId, FALSE)
       IN IF e1 # "" THEN Fail(e1, locks, txv, base, fee, Carrying(Failed("call", c, 0), args))
          ELSE IF e4 # "" THEN Fail(e4, locks, txv, base, fe, Carrying(Failed("call", c, 0), args))
          ELSE IF e2 # "" THEN Fail(e2, locks, txv, base, fe, Carrying(Failed("call", c, 0), args))
          ELSE IF e3 # "" THEN Fail(e3, locks, txv, base, fe, Carrying(Failed("call", c, 0), args))
          ELSE IF e5 # "" THEN Fail(e5, lk, txv, base, fe, Carrying(Failed("call", c, 0), args))
          ELSE /\ Push(Frame("scrypto", c, fn, 0, FALSE, args, ComponentLocks(c)))
               /\ heap' = [n \in HeapIds |->
                              IF n \in args THEN SendValue(heap[n]) ELSE heap[n]]
               /\ locks' = lk
               /\ fee' = fe
               /\ hist' = [hist EXCEPT !.sent = @ \cup (args \cap ProofIds)]
               /\ UNCHANGED <<nextBucket, nextProof, txv, base, touched,
                              outcome, err, committed>>

\* invoke_snode(SNodeRef::AuthZoneRef, "push", proof) (call_frame.rs:1245-1274)
\* and the auth zone's body: the proof leaves the frame's owned values, is
\* marked restricted like every proof sent as call data, and joins the
\* frame's auth zone
PushToAuthZone(p) ==
    /\ Running /\ Top.kind \in {"txproc", "scrypto"}
    /\ p \in Top.owned \cap ProofIds
    /\ LET fe == Consume(fee, Depth, InvokeCost)
           e1 == InvokeError(fee, InvokeCost)
           e2 == TakeError({p})
       IN IF e1 # "" THEN Fail(e1, locks, txv, base, fee, Carrying(Failed("push", p, 0), {p}))
          ELSE IF e2 # "" THEN Fail(e2, locks, txv, base, fe, Carrying(Failed("push", p, 0), {p}))
          ELSE /\ frames' = [frames EXCEPT ![Len(frames)].owned = @ \ {p},
                                           ![Len(frames)].zone = @ \cup {p}]
               /\ heap' = [heap EXCEPT ![p] = SendValue(@)]
               /\ fee' = fe
               /\ hist' = [hist EXCEPT !.sent = @ \cup {p}]
               /\ UNCHANGED <<nextBucket, nextProof, locks, txv, base, touched,
                              outcome, err, committed>>

\* invoke_snode(SNodeRef::Scrypto(ScryptoActor::Blueprint(..))) up to the start
\* of the callee frame (call_frame.rs:1385-1420): a function of the package's
\* blueprint runs with a read lock on the package and no component
CallFunction(args) ==
    /\ Running /\ Top.kind \in {"txproc", "scrypto"}
    /\ args \in ArgSets(Nameable)
    /\ LET fe == Consume(fee, Depth, InvokeCost)
           e1 == InvokeError(fee, InvokeCost)
           e4 == process_call_data(args)
           e2 == TakeError(args)
       IN IF e1 # "" THEN Fail(e1, locks, txv, base, fee, Carrying(Failed("call", "", 0), args))
          ELSE IF e4 # "" THEN Fail(e4, locks, txv, base, fe, Carrying(Failed("call", "", 0), args))
          ELSE IF e2 # "" THEN Fail(e2, locks, txv, base, fe, Carrying(Failed("call", "", 0), args))
          ELSE /\ Push(Frame("scrypto", "", "function", 0, FALSE, args, {PackageId}))
               /\ heap' = [n \in HeapIds |->
                              IF n \in args THEN SendValue(heap[n]) ELSE heap[n]]
               /\ locks' = TrackAcquire(locks, PackageId, FALSE)
               /\ fee' = fe
               /\ hist' = [hist EXCEPT !.sent = @ \cup (args \cap ProofIds)]
               /\ UNCHANGED <<nextBucket, nextProof, txv, base, touched,
                              outcome, err, committed>>

\* faulty variant: a touched base does not stop the fee payment
VaultLockError_TouchedIgnored(lk, tch, v, is_pay_fee) ==
    IF TrackAcquireError(lk, tch, v, TRUE, FALSE) = "Reentrancy" THEN "Panic"
    ELSE IF TrackAcquireError(lk, {}, VaultResource(v), TRUE, FALSE) # "" THEN "Panic"
    ELSE ""

\* call_frame.rs:1633-1723: the vault is locked mutably (write-through for the
\* fee payment), then its resource manager
VaultLockError(lk, tch, v, is_pay_fee) ==
    LET e == TrackAcquireError(lk, tch, v, TRUE, is_pay_fee) IN
    IF e = "Reentrancy" THEN "Panic"
    ELSE IF e = "ValueAlreadyTouched" THEN "PayFeeError(ValueAlreadyTouched)"
    ELSE IF TrackAcquireError(lk, {}, VaultResource(v), TRUE, FALSE) # "" THEN "Panic"
    ELSE ""

VaultFns == {"take", "recall", "put", "lock_fee", "create_proof",
             "create_proof_by_amount", "get_amount"}
\* the methods that write the vault's substates (field_lock_write_typed)
VaultWrites(fn) == fn # "get_amount"
NeedsBucketId(fn) == fn \in {"take", "recall"}
NeedsProofId(fn) == fn \in {"create_proof", "create_proof_by_amount"}
IdsLeft(fn) ==
    /\ NeedsBucketId(fn) => nextBucket < MaxBuckets
    /\ NeedsProofId(fn) => nextProof < MaxProofs
    /\ fn = "lock_fee" => Len(fee.locks) < MaxFeeLocks

\* call_frame.rs:1633-1648: a vault the frame owns is on the stack, a vault
\* stored in the frame's component is in the track
VaultsInReach == {v \in Vaults : VaultOwner(v) = Top.node} \cup (Top.owned \cap HeapVaultIds)
VaultLocation(v) == IF v \in Top.owned THEN "Stack" ELSE "Track"

\* faulty variant: a vault on the stack is reported as a touched base
VaultLocationError_AsTouched(v, is_pay_fee) ==
    IF is_pay_fee /\ VaultLocation(v) # "Track"
    THEN "PayFeeError(ValueAlreadyTouched)" ELSE ""

\* call_frame.rs:1649-1651: a fee is paid from a vault in the track only
VaultLocationError(v, is_pay_fee) ==
    IF is_pay_fee /\ VaultLocation(v) # "Track" THEN "PayFeeError(ValueNotInTrack)" ELSE ""

\* invoke_snode(SNodeRef::VaultRef(v)) up to the start of the native frame
InvokeVault(v, fn, amt, flag, args) ==
    /\ Running /\ Top.kind = "scrypto" /\ v \in VaultsInReach
    /\ fn \in VaultFns /\ IdsLeft(fn)
    /\ args \in ArgSets(Top.owned \cap BucketIds)
    /\ (fn = "put") = (args # {})
    /\ LET is_pay_fee == fn = "lock_fee"
           fe == Consume(fee, Depth, InvokeCost)
           e1 == InvokeError(fee, InvokeCost)
           e2 == TakeError(args)
           e3 == IF VaultLocationError(v, is_pay_fee) # ""
                 THEN VaultLocationError(v, is_pay_fee)
                 ELSE VaultLockError(locks, touched, v, is_pay_fee)
           lk == TrackAcquire(TrackAcquire(locks, v, TRUE), VaultResource(v), TRUE)
       IN IF e1 # "" THEN Fail(e1, locks, txv, base, fee, Failed(fn, v, amt))
          ELSE IF e2 # "" THEN Fail(e2, locks, txv, base, fe, Failed(fn, v, amt))
          ELSE IF e3 # "" THEN Fail(e3, locks, txv, base, fe, Failed(fn, v, amt))
          ELSE /\ Push(Frame("vault", v, fn, amt, flag, args, {v, VaultResource(v)}))
               /\ locks' = lk
               /\ fee' = fe
               /\ UNCHANGED <<heap, nextBucket, nextProof, txv, base, touched,
                              outcome, err, committed, hist>>

\* faulty variants: no release is write-through; every vault release is
ReleaseWriteThrough_Never(f, l) == FALSE
ReleaseWriteThrough_Always(f, l) == l \in Vaults

\* call_frame.rs:1801: only the vault of a fee payment is released write-through
ReleaseWriteThrough(f, l) == f.fn = "lock_fee" /\ l \in Vaults

\* call_frame.rs:1797-1802 with the track's release_lock: a write-through
\* release stores the value in the base state as well
ReleaseVault(f, v, nv) ==
    /\ txv' = [txv EXCEPT ![v] = nv]
    /\ base' = IF ReleaseWriteThrough(f, v) THEN [base EXCEPT ![v] = nv] ELSE base
    /\ touched' = IF ReleaseWriteThrough(f, v) \/ ~VaultWrites(f.fn)
                      THEN touched ELSE touched \cup {v}
    /\ locks' = ReleaseAll(locks, f.locked)

TheArg(f) == CHOOSE n \in f.owned : TRUE

\* faulty variant: lock_fee looks at the amount before the resource
VaultError_AmountFirst(fn, cur, amt, arg) ==
    LET d == Divisibility(cur.res) IN
    IF fn \in {"take", "recall"} THEN
        IF ~check_amount(amt, d) THEN "InvalidAmount"
        ELSE IF ~CanTakeByAmount(cur.liquid, amt) THEN "ResourceError"
        ELSE ""
    ELSE IF fn = "put" THEN
        IF arg.res # cur.res THEN "MismatchingResource" ELSE ""
    ELSE IF fn = "lock_fee" THEN
        IF ~check_amount(amt, d) THEN "InvalidAmount"
        ELSE IF cur.res # RADIX_TOKEN THEN "LockFeeNotRadixToken"
        ELSE IF ~CanTakeByAmount(cur.liquid, amt) THEN "LockFeeInsufficientBalance"
        ELSE ""
    ELSE IF fn = "create_proof" THEN
        IF get_amount(cur) = 0 THEN "ProofError" ELSE ""
    ELSE IF fn = "get_amount" THEN ""
    ELSE IF ~check_amount(amt, d) THEN "InvalidAmount"
    ELSE IF ~CanLockAmount(cur, amt) THEN "ResourceError"
    ELSE IF amt = 0 THEN "ProofError"
    ELSE ""

\* faulty variant: lock_fee debits without looking at the balance
VaultError_NoBalanceCheck(fn, cur, amt, arg) ==
    IF fn = "lock_fee" THEN
        IF cur.res # RADIX_TOKEN THEN "LockFeeNotRadixToken"
        ELSE IF ~check_amount(amt, Divisibility(cur.res)) THEN "InvalidAmount"
        ELSE ""
    ELSE VaultError_AmountFirst(fn, cur, amt, arg)

\* fungible_vault.rs:35-260: the error, if any, of a vault method
VaultError(fn, cur, amt, arg) ==
    LET d == Divisibility(cur.res) IN
    IF fn \in {"take", "recall"} THEN
        IF ~check_amount(amt, d) THEN "InvalidAmount"
        ELSE IF ~CanTakeByAmount(cur.liquid, amt) THEN "ResourceError"
        ELSE ""
    ELSE IF fn = "put" THEN
        IF arg.res # cur.res THEN "MismatchingResource" ELSE ""
    ELSE IF fn = "lock_fee" THEN
        IF cur.res # RADIX_TOKEN THEN "LockFeeNotRadixToken"
        ELSE IF ~check_amount(amt, d) THEN "InvalidAmount"
        ELSE IF ~CanTakeByAmount(cur.liquid, amt) THEN "LockFeeInsufficientBalance"
        ELSE ""
    ELSE IF fn = "create_proof" THEN
        IF get_amount(cur) = 0 THEN "ProofError" ELSE ""
    ELSE IF fn = "get_amount" THEN ""
    ELSE IF ~check_amount(amt, d) THEN "InvalidAmount"
    ELSE IF ~CanLockAmount(cur, amt) THEN "ResourceError"
    ELSE IF amt = 0 THEN "ProofError"
    ELSE ""

\* faulty variant: a take or recall hands out the amount without debiting the vault
VaultAfter_TakeKeepsBalance(fn, cur, amt, arg) ==
    IF fn \in {"take", "recall", "get_amount"} THEN cur
    ELSE IF fn = "lock_fee" THEN [cur EXCEPT !.liquid = @ - amt]
    ELSE IF fn = "put" THEN [cur EXCEPT !.liquid = @ + arg.liquid]
    ELSE IF fn = "create_proof" THEN lock_amount(cur, get_amount(cur))
    ELSE lock_amount(cur, amt)

\* fungible_vault.rs:35-260, 321-433: the vault after a method that succeeded
VaultAfter(fn, cur, amt, arg) ==
    IF fn = "get_amount" THEN cur
    ELSE IF fn \in {"take", "recall", "lock_fee"} THEN [cur EXCEPT !.liquid = @ - amt]
    ELSE IF fn = "put" THEN [cur EXCEPT !.liquid = @ + arg.liquid]
    ELSE IF fn = "create_proof" THEN lock_amount(cur, get_amount(cur))
    ELSE lock_amount(cur, amt)

\* the body of a vault method, the return of its result to the caller and
\* the release of the callee's locks
RunVault ==
    /\ Running /\ Top.kind = "vault"
    /\ LET f == Top
           v == f.node
           cur == txv[v]
           arg == IF f.owned = {} THEN DeadNode ELSE heap[TheArg(f)]
           e == VaultError(f.fn, cur, f.amt, arg)
           nv == VaultAfter(f.fn, cur, f.amt, arg)
           nb == BucketNames[nextBucket + 1]
           np == ProofNames[nextProof + 1]
           rets == IF NeedsBucketId(f.fn) THEN {nb}
                   ELSE IF NeedsProofId(f.fn) THEN {np} ELSE {}
       IN IF e # "" THEN Fail(e, locks, txv, base, fee, Failed(f.fn, v, f.amt))
          ELSE /\ ReleaseVault(f, v, nv)
               /\ Pop(rets)
               /\ heap' = [n \in HeapIds |->
                    IF n \in f.owned THEN DeadNode
                    ELSE IF n \in rets /\ NeedsBucketId(f.fn)
                        THEN ReceiveValue(NewBucket(cur.res, f.amt))
                    ELSE IF n \in rets
                        THEN ReceiveValue(NewProof(cur.res,
                                 IF f.fn = "create_proof" THEN get_amount(cur) ELSE f.amt, v))
                    ELSE heap[n]]
               /\ nextBucket' = IF NeedsBucketId(f.fn) THEN nextBucket + 1 ELSE nextBucket
               /\ nextProof' = IF NeedsProofId(f.fn) THEN nextProof + 1 ELSE nextProof
               /\ fee' = IF f.fn = "lock_fee"
                            THEN credit_cost_units(fee, v, f.amt, f.flag) ELSE fee
               /\ hist' = [hist EXCEPT
                     !.put = IF f.fn = "put" THEN @ \cup {v} ELSE @,
                     !.written = IF VaultWrites(f.fn) /\ f.fn # "lock_fee"
                                 THEN @ \cup {v} ELSE @,
                     !.queried = IF f.fn = "get_amount"
                                    /\ \A i \in 1..Len(fee.locks) : fee.locks[i].vault # v
                                 THEN @ \cup {v} ELSE @]
               /\ UNCHANGED <<outcome, err, committed>>

CreateCost == 0        \* fee table: cost units charged for creating a node

\* IdAllocator::new_vault_id, new_kv_store_id: a vault or key-value store
\* leaves the heap only when the transaction fails, so the ids handed out
\* are those of the live nodes
Allocated(ids) == Cardinality({n \in ids : heap[n].kind # "dead"})

\* invoke_snode(SNodeRef::ResourceRef(r)) up to the start of the native frame
InvokeResource(r) ==
    /\ Running /\ Top.kind = "scrypto"
    /\ Allocated(HeapVaultIds) < MaxVaults
    /\ LET fe == Consume(fee, Depth, InvokeCost)
           e1 == InvokeError(fee, InvokeCost)
           e2 == process_call_data({})
           e3 == IF TrackAcquireError(locks, {}, r, TRUE, FALSE) # "" THEN "Panic" ELSE ""
       IN IF e1 # "" THEN Fail(e1, locks, txv, base, fee, Failed("create_vault", r, 0))
          ELSE IF e2 # "" THEN Fail(e2, locks, txv, base, fe, Failed("create_vault", r, 0))
          ELSE IF e3 # "" THEN Fail(e3, locks, txv, base, fe, Failed("create_vault", r, 0))
          ELSE /\ Push(Frame("resource", r, "create_vault", 0, FALSE, {}, {r}))
               /\ locks' = TrackAcquire(locks, r, TRUE)
               /\ fee' = fe
               /\ UNCHANGED <<heap, nextBucket, nextProof, txv, base, touched,
                              outcome, err, committed, hist>>

\* the resource manager's create_vault: create_node of an empty vault, which
\* the return data names, and the return of the vault to the caller
RunResource ==
    /\ Running /\ Top.kind = "resource"
    /\ LET f == Top
           id == VaultNames[Allocated(HeapVaultIds) + 1]
           fe == Consume(fee, Depth, CreateCost)
           e1 == IF ConsumeOk(fee, Depth, CreateCost) THEN "" ELSE "CostingError"
           e2 == process_return_data(f.kind, {id})
       IN IF e1 # "" THEN Fail(e1, locks, txv, base, fee, Failed(f.fn, f.node, 0))
          ELSE IF e2 # "" THEN Fail(e2, locks, txv, base, fe,
                                    Carrying(Failed("return", f.node, 0), {id}))
          ELSE /\ Pop({id})
               /\ heap' = [heap EXCEPT ![id] = ReceiveValue(NewVault(f.node))]
               /\ locks' = ReleaseAll(locks, f.locked)
               /\ fee' = fe
               /\ hist' = [hist EXCEPT !.returned = @ \cup {id}]
               /\ UNCHANGED <<nextBucket, nextProof, txv, base, touched,
                              outcome, err, committed>>

\* create_node of a key-value store in a component method (call_frame.rs:1989-2070)
CreateKvStore ==
    /\ Running /\ Top.kind = "scrypto"
    /\ Allocated(KvStoreIds) < MaxKvStores
    /\ LET id == KvStoreNames[Allocated(KvStoreIds) + 1]
           fe == Consume(fee, Depth, CreateCost)
       IN IF ~ConsumeOk(fee, Depth, CreateCost)
          THEN Fail("CostingError", locks, txv, base, fee, Failed("create_kv_store", Top.node, 0))
          ELSE /\ frames' = [frames EXCEPT ![Len(frames)].owned = @ \cup {id}]
               /\ heap' = [heap EXCEPT ![id] = NewKvStore]
               /\ fee' = fe
               /\ UNCHANGED <<nextBucket, nextProof, locks, txv, base, touched,
                              outcome, err, committed, hist>>

GlobalizeCost == 1     \* fee table: cost units charged for globalizing a node

\* faulty variant: every node may be kept in a component
verify_can_persist_Any(n) == TRUE

\* RENode::verify_can_persist: a vault, a key-value store and a component may
\* be kept in a component's state, a bucket and a proof may not
verify_can_persist(n) == n.kind \in {"vault", "kvstore", "component"}

\* take_available_values(children, true) and the test of the missing values
\* in create_node: "" or the error
ChildrenError(children) ==
    IF \E n \in children : n \in Top.owned /\ ~verify_can_move(heap[n]) THEN "CantMove"
    ELSE IF \E n \in children : n \in Top.owned /\ ~verify_can_persist(heap[n])
    THEN "ValueNotAllowed"
    ELSE IF \E n \in children : n \notin Top.owned THEN "ValueNotFound"
    ELSE ""

\* what the buckets among the children hold
ChildrenAmount(children) ==
    IF \E b \in children \cap Top.owned : heap[b].kind = "bucket"
    THEN get_amount(heap[CHOOSE b \in children \cap Top.owned : heap[b].kind = "bucket"])
    ELSE 0

\* create_node of a component whose state names the nodes in children, in a
\* function of the blueprint: the children leave owned_values and are kept in
\* the new node, which the frame owns
CreateComponent(children) ==
    /\ Running /\ Top.kind = "scrypto" /\ Top.fn = "function"
    /\ Allocated(NewComponentIds) < MaxComponents
    /\ LET id == ComponentNames[Allocated(NewComponentIds) + 1]
           fe == Consume(fee, Depth, CreateCost)
           e1 == IF ConsumeOk(fee, Depth, CreateCost) THEN "" ELSE "CostingError"
           e2 == ChildrenError(children)
       IN IF e1 # "" THEN /\ Fail(e1, locks, txv, base, fee, Failed("create_component", id, 0))
                             /\ UNCHANGED parent
          ELSE IF e2 # "" THEN /\ Fail(e2, locks, txv, base, fe,
                                       Carrying(Failed("create_component", id,
                                                       ChildrenAmount(children)), children))
                               /\ UNCHANGED parent
          ELSE /\ frames' = [frames EXCEPT ![Len(frames)].owned = (@ \ children) \cup {id}]
               /\ heap' = [heap EXCEPT ![id] = NewComponent]
               /\ parent' = [n \in HeapIds |-> IF n \in children THEN id ELSE parent[n]]
               /\ fee' = fe
               /\ UNCHANGED <<nextBucket, nextProof, locks, txv, base, touched,
                              outcome, err, committed, hist>>

\* the node ids a body can hand to globalize: the nodes its frame owns and the
\* components it has globalized
Globalizable == Top.owned \cup {c \in NewComponentIds : parent[c] = "track"}

\* globalize_node after the cost was consumed: take_available_values(..)
\* .unwrap(), assert!(missing.is_empty()) and the `_ => panic!("Not expected")`
\* arm of the match on the node's type
GlobalizePanic(id) ==
    IF id \notin Top.owned THEN "Panic"
    ELSE IF ~verify_can_move(heap[id]) THEN "Panic"
    ELSE IF heap[id].kind # "component" THEN "Panic"
    ELSE ""

\* CallFrame::globalize_node: the node leaves owned_values and its substates,
\* with those of its children, are created in the track
GlobalizeNode(id) ==
    /\ Running /\ Top.kind = "scrypto" /\ Top.fn = "function"
    /\ id \in Globalizable
    /\ LET fe == Consume(fee, Depth, GlobalizeCost)
           e1 == IF ConsumeOk(fee, Depth, GlobalizeCost) THEN "" ELSE "CostingError"
           e2 == GlobalizePanic(id)
       IN IF e1 # "" THEN /\ Fail(e1, locks, txv, base, fee, Failed("globalize", id, 0))
                             /\ UNCHANGED parent
          ELSE IF e2 # "" THEN /\ Fail(e2, locks, txv, base, fe, Failed("globalize", id, 0))
                               /\ UNCHANGED parent
          ELSE /\ frames' = [frames EXCEPT ![Len(frames)].owned = @ \ {id}]
               /\ parent' = [parent EXCEPT ![id] = "track"]
               /\ fee' = fe
               /\ UNCHANGED <<heap, nextBucket, nextProof, locks, txv, base, touched,
                              outcome, err, committed, hist>>

BucketFns == {"take", "put", "create_proof"}

\* invoke_snode(SNodeRef::BucketRef(b)) up to the start of the native frame:
\* the arguments leave owned_values before the receiver is looked up
InvokeBucket(b, fn, amt, args) ==
    /\ Running /\ Top.kind \in {"txproc", "scrypto"}
    /\ b \in BucketIds /\ Alive(b)
    /\ fn \in BucketFns /\ IdsLeft(fn)
    /\ args \in ArgSets(Top.owned \cap BucketIds)
    /\ (fn = "put") = (args # {})
    /\ LET fe == Consume(fee, Depth, InvokeCost)
           e1 == InvokeError(fee, InvokeCost)
           e2 == TakeError(args)
           e3 == IF b \in Top.owned \ args THEN "" ELSE "BucketNotFound"
       IN IF e1 # "" THEN Fail(e1, locks, txv, base, fee, Failed(fn, b, amt))
          ELSE IF e2 # "" THEN Fail(e2, locks, txv, base, fe, Failed(fn, b, amt))
          ELSE IF e3 # "" THEN Fail(e3, locks, txv, base, fe, Failed(fn, b, amt))
          ELSE /\ Push(Frame("bucket", b, fn, amt, FALSE, args, {}))
               /\ fee' = fe
               /\ UNCHANGED <<heap, nextBucket, nextProof, locks, txv, base,
                              touched, outcome, err, committed, hist>>

\* bucket.rs:517-575, 615-650, 719-775: the error, if any, of a bucket method
BucketError(fn, cur, amt, arg) ==
    IF fn = "take" THEN
        IF ~check_amount(amt, Divisibility(cur.res)) THEN "InvalidAmount"
        ELSE IF ~CanTakeByAmount(cur.liquid, amt) THEN "ResourceError"
        ELSE ""
    ELSE IF fn = "put" THEN
        IF arg.res # cur.res THEN "MismatchingResource" ELSE ""
    ELSE IF get_amount(cur) = 0 THEN "ProofError"
    ELSE ""

\* bucket.rs:94-175: the bucket after a method that succeeded
BucketAfter(fn, cur, amt, arg) ==
    IF fn = "take" THEN [cur EXCEPT !.liquid = @ - amt]
    ELSE IF fn = "put" THEN [cur EXCEPT !.liquid = @ + arg.liquid]
    ELSE lock_amount(cur, get_amount(cur))

\* the body of a bucket method and the return of its result to the caller
RunBucket ==
    /\ Running /\ Top.kind = "bucket"
    /\ LET f == Top
           b == f.node
           cur == heap[b]
           arg == IF f.owned = {} THEN DeadNode ELSE heap[TheArg(f)]
           e == BucketError(f.fn, cur, f.amt, arg)
           nb == BucketNames[nextBucket + 1]
           np == ProofNames[nextProof + 1]
           rets == IF NeedsBucketId(f.fn) THEN {nb}
                   ELSE IF NeedsProofId(f.fn) THEN {np} ELSE {}
       IN IF e # "" THEN Fail(e, locks, txv, base, fee, Failed(f.fn, b, f.amt))
          ELSE /\ Pop(rets)
               /\ heap' = [n \in HeapIds |->
                    IF n = b THEN BucketAfter(f.fn, cur, f.amt, arg)
                    ELSE IF n \in f.owned THEN DeadNode
                    ELSE IF n \in rets /\ NeedsBucketId(f.fn)
                        THEN ReceiveValue(NewBucket(cur.res, f.amt))
                    ELSE IF n \in rets
                        THEN ReceiveValue(NewProof(cur.res, get_amount(cur), b))
                    ELSE heap[n]]
               /\ nextBucket' = IF NeedsBucketId(f.fn) THEN nextBucket + 1 ELSE nextBucket
               /\ nextProof' = IF NeedsProofId(f.fn) THEN nextProof + 1 ELSE nextProof
               /\ UNCHANGED <<locks, txv, base, touched, fee, outcome, err, committed, hist>>

\* releasing the amount a proof holds locked in its source container
DropProof(p, h, tv) ==
    LET src == h[p].src IN
    IF src \in Vaults
        THEN [heap |-> [h EXCEPT ![p] = DeadNode],
              txv |-> [tv EXCEPT ![src] = unlock_amount(@, h[p].amount)]]
    ELSE IF src \in BucketIds /\ h[src].kind # "dead"
        THEN [heap |-> [h EXCEPT ![p] = DeadNode, ![src] = unlock_amount(@, h[p].amount)],
              txv |-> tv]
    ELSE [heap |-> [h EXCEPT ![p] = DeadNode], txv |-> tv]

RECURSIVE DropProofs(_, _, _)
DropProofs(S, h, tv) ==
    IF S = {} THEN [heap |-> h, txv |-> tv]
    ELSE LET p == CHOOSE x \in S : TRUE
             r == DropProof(p, h, tv)
         IN DropProofs(S \ {p}, r.heap, r.txv)

\* faulty variant: the values left in the frame are dropped without a check
DropError_Ignored(S, h) == ""

\* RENode::drop_values as run calls it at call_frame.rs:894-902 (drop_owned_values)
DropError(S, h) ==
    IF \E b \in S \cap BucketIds : get_amount(h[b]) # 0 THEN "DropFailure"
    ELSE IF S \cap (HeapVaultIds \cup KvStoreIds \cup NewComponentIds) # {} THEN "DropFailure"
    ELSE ""

DropValues(S, h, tv) ==
    LET r == DropProofs(S \cap ProofIds, h, tv) IN
    [heap |-> [n \in HeapIds |-> IF n \in S THEN DeadNode ELSE r.heap[n]],
     txv |-> r.txv]

\* the vaults whose locked amount the drop of the proofs in S writes
ProofSources(S) == {heap[p].src : p \in S \cap ProofIds} \cap Vaults

Touch(tv) == touched \cup {v \in Vaults : tv[v] # txv[v]}

\* invoke_snode(SNodeRef::Consumed(n)) at call_frame.rs:1168-1219: the node
\* moves into the callee; a bucket locks its resource manager
InvokeConsumed(n) ==
    /\ Running /\ Top.kind \in {"txproc", "scrypto"}
    /\ n \in HeapIds /\ Alive(n)
    /\ LET fe == Consume(fee, Depth, InvokeCost)
           e1 == InvokeError(fee, InvokeCost)
           e2 == IF n \in Top.owned THEN "" ELSE "ValueNotFound"
           res == heap[n].res
           e3 == IF IsBucket(n)
                     /\ TrackAcquireError(locks, {}, res, TRUE, FALSE) # ""
                 THEN "Panic" ELSE ""
       IN IF e1 # "" THEN Fail(e1, locks, txv, base, fee, Failed("drop", n, 0))
          ELSE IF e2 # "" THEN Fail(e2, locks, txv, base, fe, Failed("drop", n, 0))
          ELSE IF e3 # "" THEN Fail(e3, locks, txv, base, fe, Failed("drop", n, 0))
          ELSE /\ Push(Frame("consumed", n,
                             IF IsBucket(n) THEN "drop_empty" ELSE "drop",
                             0, FALSE, {n},
                             IF IsBucket(n) THEN {res} ELSE {}))
               /\ locks' = IF IsBucket(n) THEN TrackAcquire(locks, res, TRUE)
                           ELSE locks
               /\ fee' = fe
               /\ UNCHANGED <<heap, nextBucket, nextProof, txv, base, touched,
                              outcome, err, committed, hist>>

\* bucket.rs:495-515 (drop_empty) and the drop of a proof
RunConsumed ==
    /\ Running /\ Top.kind = "consumed"
    /\ LET f == Top
           n == f.node
           e == IF IsBucket(n) /\ get_amount(heap[n]) # 0 THEN "NotEmpty" ELSE ""
           r == DropValues({n}, heap, txv)
       IN IF e # "" THEN Fail(e, locks, txv, base, fee, Failed(f.fn, n, 0))
          ELSE /\ frames' = SubSeq(frames, 1, Len(frames) - 1)
               /\ heap' = r.heap
               /\ txv' = r.txv
               /\ touched' = Touch(r.txv)
               /\ locks' = ReleaseAll(locks, f.locked)
               /\ hist' = [hist EXCEPT !.written = @ \cup ProofSources({n})]
               /\ UNCHANGED <<nextBucket, nextProof, base, fee, outcome, err,
                              committed>>

\* faulty variant: a frame that ends with proofs in its auth zone keeps them
ClearAuthZone_Keep(z, h, tv) == [heap |-> h, txv |-> tv]

\* the auth zone's clear, invoked at the end of run (call_frame.rs:894-900):
\* every proof of the zone is dropped
ClearAuthZone(z, h, tv) == DropProofs(z \cap ProofIds, h, tv)

\* the end of a component method: run (call_frame.rs:761-912) moves the
\* returned values out, invokes the clearing of the frame's auth zone (a
\* metered invocation one level deeper) and drops the rest; invoke_snode (1797-1808) releases
\* the callee's locks and hands the values to the caller
ScryptoReturn(rets) ==
    /\ Running /\ Top.kind = "scrypto"
    /\ rets \in ArgSets(Nameable)
    /\ LET f == Top
           rest == f.owned \ rets
           fe == Consume(fee, Depth, ClearCost)
           e0 == process_return_data(f.kind, rets)
           e1 == TakeError(rets)
           e2 == InvokeError(fee, ClearCost)
           z == ClearAuthZone(f.zone, heap, txv)
           e3 == DropError(rest, z.heap)
           r == DropValues(rest, z.heap, z.txv)
       IN IF e0 # "" THEN Fail(e0, locks, txv, base, fee,
                               Carrying(Failed("return", f.node, 0), rets))
          ELSE IF e1 # "" THEN Fail(e1, locks, txv, base, fee,
                                    Carrying(Failed("return", f.node, 0), rets))
          ELSE IF e2 # "" THEN Fail(e2, locks, txv, base, fee,
                                    Carrying(Failed("return", f.node, 0), rets))
          ELSE IF e3 # "" THEN Fail(e3, locks, txv, base, fe,
                                    Carrying(Failed("return", f.node, 0), rets))
          ELSE /\ Pop(rets)
               /\ heap' = [n \in HeapIds |->
                              IF n \in rets THEN ReceiveValue(r.heap[n]) ELSE r.heap[n]]
               /\ txv' = r.txv
               /\ touched' = Touch(r.txv)
               /\ locks' = ReleaseAll(locks, f.locked)
               /\ fee' = fe
               /\ hist' = [hist EXCEPT !.returned = @ \cup (rets \cap ProofIds),
                                        !.written = @ \cup ProofSources(rest \cup f.zone),
                                        !.cleared = @ \cup (f.zone \cap ProofIds)]
               /\ UNCHANGED <<nextBucket, nextProof, base, outcome, err, committed>>

\* a component method that ends in an error of its own
ScryptoFail ==
    /\ Running /\ Top.kind = "scrypto"
    /\ Fail("InvokeError", locks, txv, base, fee, Failed("body", Top.node, 0))

\* the end of the manifest: the transaction processor's frame clears its auth
\* zone and is dropped, and the fee reserve is finalized
TxReturn ==
    /\ Running /\ Top.kind = "txproc"
    /\ LET fe == Consume(fee, Depth, ClearCost)
           e1 == InvokeError(fee, ClearCost)
           z == ClearAuthZone(Top.zone, heap, txv)
           e2 == DropError(Top.owned, z.heap)
           r == DropValues(Top.owned, z.heap, z.txv)
           result == IF Repaid(fe) THEN "success" ELSE "rejected"
       IN IF e1 # "" THEN Fail(e1, locks, txv, base, fee, Failed("return", "", 0))
          ELSE IF e2 # "" THEN Fail(e2, locks, txv, base, fe, Failed("return", "", 0))
          ELSE /\ frames' = <<>>
               /\ heap' = r.heap
               /\ txv' = r.txv
               /\ touched' = Touch(r.txv)
               /\ fee' = fe
               /\ outcome' = result
               /\ err' = IF result = "success" THEN "" ELSE "LoanNotRepaid"
               /\ committed' = Receipt(result, r.txv, base, fe)
               /\ hist' = [hist EXCEPT !.cleared = @ \cup (Top.zone \cap ProofIds)]
               /\ UNCHANGED <<nextBucket, nextProof, locks, base>>

Amounts == {-1, 1, 5, 10}

\* ------------------------------------------------------ manifest generator
MaxInstructions == 4   \* instructions of one manifest
Names == {"a", "b"}    \* the names a manifest gives to buckets and proofs

NoMap == [k \in {} |-> 0]
Insert(m, k, v) == [x \in DOMAIN m \cup {k} |-> IF x = k THEN v ELSE m[x]]
Remove(m, k) == [x \in DOMAIN m \ {k} |-> m[x]]

\* NameResolver::new
NameResolver == [named_buckets |-> NoMap, named_proofs |-> NoMap]

\* ManifestIdValidator::new. bucket_ids: id -> number of proofs that lock
\* the bucket; proof_ids: id -> the bucket the proof was made from (0 for a
\* proof of the auth zone)
ManifestIdValidator ==
    [bucket_ids |-> NoMap, proof_ids |-> NoMap, next_bucket |-> 1, next_proof |-> 1]

AuthZoneProof == 0

\* the result of a step of generate_instruction: the resolver and validator
\* after it, the id it yields and the GeneratorError that ended it
Step(r, v, id, e) == [resolver |-> r, validator |-> v, id |-> id, err |-> e]

insert_bucket(r, name, id) ==
    IF name \in DOMAIN r.named_buckets \/ name \in DOMAIN r.named_proofs
    THEN [r |-> r, err |-> "NameResolverError(NamedAlreadyDefined)"]
    ELSE [r |-> [r EXCEPT !.named_buckets = Insert(@, name, id)], err |-> ""]

insert_proof(r, name, id) ==
    IF name \in DOMAIN r.named_buckets \/ name \in DOMAIN r.named_proofs
    THEN [r |-> r, err |-> "NameResolverError(NamedAlreadyDefined)"]
    ELSE [r |-> [r EXCEPT !.named_proofs = Insert(@, name, id)], err |-> ""]

\* faulty variant: a name resolves only while its bucket is known to the
\* id validator
resolve_bucket_LiveOnly(r, v, name) ==
    IF name \in DOMAIN r.named_buckets /\ r.named_buckets[name] \in DOMAIN v.bucket_ids
    THEN [id |-> r.named_buckets[name], err |-> ""]
    ELSE [id |-> 0, err |-> "NameResolverError(UndefinedBucket)"]

\* NameResolver::resolve_bucket under generate_bucket (the validator is not
\* consulted)
resolve_bucket(r, v, name) ==
    IF name \in DOMAIN r.named_buckets
    THEN [id |-> r.named_buckets[name], err |-> ""]
    ELSE [id |-> 0, err |-> "NameResolverError(UndefinedBucket)"]

resolve_proof(r, name) ==
    IF name \in DOMAIN r.named_proofs
    THEN [id |-> r.named_proofs[name], err |-> ""]
    ELSE [id |-> 0, err |-> "NameResolverError(UndefinedProof)"]

new_bucket(v) ==
    [v |-> [v EXCEPT !.bucket_ids = Insert(@, v.next_bucket, 0),
                     !.next_bucket = @ + 1],
     id |-> v.next_bucket, err |-> ""]

drop_bucket(v, id) ==
    IF id \notin DOMAIN v.bucket_ids
    THEN [v |-> v, err |-> "IdValidationError(BucketNotFound)"]
    ELSE IF v.bucket_ids[id] # 0
    THEN [v |-> v, err |-> "IdValidationError(BucketLocked)"]
    ELSE [v |-> [v EXCEPT !.bucket_ids = Remove(@, id)], err |-> ""]

new_proof(v, kind) ==
    IF kind # AuthZoneProof /\ kind \notin DOMAIN v.bucket_ids
    THEN [v |-> v, id |-> 0, err |-> "IdValidationError(BucketNotFound)"]
    ELSE [v |-> [v EXCEPT !.bucket_ids =
                              IF kind = AuthZoneProof THEN @
                              ELSE [@ EXCEPT ![kind] = @ + 1],
                          !.proof_ids = Insert(@, v.next_proof, kind),
                          !.next_proof = @ + 1],
          id |-> v.next_proof, err |-> ""]

clone_proof(v, id) ==
    IF id \notin DOMAIN v.proof_ids
    THEN [v |-> v, id |-> 0, err |-> "IdValidationError(ProofNotFound)"]
    ELSE new_proof(v, v.proof_ids[id])

drop_proof(v, id) ==
    IF id \notin DOMAIN v.proof_ids
    THEN [v |-> v, err |-> "IdValidationError(ProofNotFound)"]
    ELSE [v |-> [v EXCEPT !.proof_ids = Remove(@, id),
                          !.bucket_ids =
                              IF v.proof_ids[id] = AuthZoneProof THEN @
                              ELSE [@ EXCEPT ![v.proof_ids[id]] = @ - 1]],
          err |-> ""]

\* the instructions of the manifests: each declares a name, uses one, or both
Instructions ==
    [ins : {"TakeFromWorktop", "PopFromAuthZone"}, use : {""}, new : Names]
    \cup [ins : {"ReturnToWorktop", "BurnResource", "PushToAuthZone", "DropProof"},
          use : Names, new : {""}]
    \cup [ins : {"CreateProofFromBucket", "CloneProof"}, use : Names, new : Names]

UsesBucket(i) == i.ins \in {"ReturnToWorktop", "BurnResource", "CreateProofFromBucket"}
UsesProof(i) == i.ins \in {"PushToAuthZone", "DropProof", "CloneProof"}

\* generate_instruction: the first error of the arm ends it (the ? operator)
generate_instruction(i, r, v) ==
    CASE i.ins = "TakeFromWorktop" ->
            LET b == new_bucket(v)
                d == insert_bucket(r, i.new, b.id)
            IN  IF d.err # "" THEN Step(r, b.v, 0, d.err) ELSE Step(d.r, b.v, b.id, "")
      [] i.ins = "PopFromAuthZone" ->
            LET p == new_proof(v, AuthZoneProof)
                d == insert_proof(r, i.new, p.id)
            IN  IF d.err # "" THEN Step(r, p.v, 0, d.err) ELSE Step(d.r, p.v, p.id, "")
      [] i.ins \in {"ReturnToWorktop", "BurnResource"} ->
            LET b == resolve_bucket(r, v, i.use)
                d == drop_bucket(v, b.id)
            IN  IF b.err # "" THEN Step(r, v, 0, b.err)
                ELSE IF d.err # "" THEN Step(r, v, b.id, d.err)
                ELSE Step(r, d.v, b.id, "")
      [] i.ins = "CreateProofFromBucket" ->
            LET b == resolve_bucket(r, v, i.use)
                p == new_proof(v, b.id)
                d == insert_proof(r, i.new, p.id)
            IN  IF b.err # "" THEN Step(r, v, 0, b.err)
                ELSE IF p.err # "" THEN Step(r, v, b.id, p.err)
                ELSE IF d.err # "" THEN Step(r, p.v, b.id, d.err)
                ELSE Step(d.r, p.v, b.id, "")
      [] i.ins = "CloneProof" ->
            LET q == resolve_proof(r, i.use)
                p == clone_proof(v, q.id)
                d == insert_proof(r, i.new, p.id)
            IN  IF q.err # "" THEN Step(r, v, 0, q.err)
                ELSE IF p.err # "" THEN Step(r, v, q.id, p.err)
                ELSE IF d.err # "" THEN Step(r, p.v, q.id, d.err)
                ELSE Step(d.r, p.v, q.id, "")
      [] OTHER ->
            LET q == resolve_proof(r, i.use)
                d == drop_proof(v, q.id)
            IN  IF q.err # "" THEN Step(r, v, 0, q.err)
                ELSE IF d.err # "" THEN Step(r, v, q.id, d.err)
                ELSE Step(r, d.v, q.id, "")

NoInstruction == [ins |-> "", use |-> "", new |-> ""]

\* generate_manifest before its loop. declared and live are what held of the
\* name the last instruction used, before that instruction: it was declared
\* by an earlier instruction; its bucket or proof was still there
NewGenerator ==
    [resolver |-> NameResolver, validator |-> ManifestIdValidator, output |-> 0,
     err |-> "", last |-> NoInstruction, id |-> 0, declared |-> FALSE, live |-> FALSE]

\* ------------------------------------------- bucket and vault blueprints
MaxAmount == 2     \* units a fungible container is created with
MaxIds == 2        \* non-fungible local ids of the resource
MaxOps == 3        \* invocations on one container

NonFungibleIds == 1..MaxIds
\* the amounts a caller passes to take, lock_amount, unlock_amount, lock_fee
OpAmounts == -1..MaxAmount

Substates == {"Info", "LiquidFungible", "LockedFungible",
              "LiquidNonFungible", "LockedNonFungible"}

NoIds == [i \in {} |-> 0]
\* the node before new_object: type "" (none), "fungible" or "non_fungible";
\* holder "bucket" or "vault"; handles: the substates on which a lock handle
\* is open; drops: whether the kernel drops the handles a frame left open
\* when the invocation ends (the kernel of these blueprints is not in src);
\* offered: the node of the bucket last offered to put, "" (none yet),
\* "dropped" or "kept"
NoContainer ==
    [type |-> "", holder |-> "", liquid |-> 0, locked |-> NoAmounts,
     ids |-> {}, locked_ids |-> NoIds, handles |-> {}, drops |-> FALSE,
     offered |-> ""]

\* what the properties keep of the invocations: the last one, its error, the
\* handles its body left open, the amount and ids the container should hold,
\* the locks made and not yet unlocked, the resource the last take handed out
\* and the liquid content before that take
NoInvocation ==
    [op |-> "", arg |-> 0, err |-> "", leaked |-> {}, count |-> 0,
     total |-> 0, all |-> {}, out |-> NoAmounts, negative |-> FALSE,
     taken |-> 0, taken_ids |-> {}, before |-> 0, before_ids |-> {}]

\* the container after a step of a body, and the error that ended the body
Res(b, e) == [b |-> b, err |-> e]

\* sys_lock_substate / lock_field: refused while a handle on the substate is open
Acquire(b, s) ==
    IF s \in b.handles THEN Res(b, "LockError")
    ELSE Res([b EXCEPT !.handles = @ \cup {s}], "")
\* sys_drop_lock / field_lock_release
Release(b, s) == [b EXCEPT !.handles = @ \ {s}]

\* a read of one substate under a read-only handle that is dropped at once
\* (BucketInfoSubstate::of, liquid_amount, locked_amount)
ReadError(b, s) == Acquire(b, s).err

\* FungibleBucket::take / FungibleVault::take
Fungible_take(b, amount) ==
    LET a == Acquire(b, "LiquidFungible") IN
    IF a.err # "" THEN a
    ELSE IF ~CanTakeByAmount(b.liquid, amount) THEN Res(a.b, "ResourceError")
    ELSE Res([b EXCEPT !.liquid = @ - amount], "")

\* FungibleBucket::put / FungibleVault::put
Fungible_put(b, amount) ==
    LET a == Acquire(b, "LiquidFungible") IN
    IF amount = 0 THEN Res(b, "")
    ELSE IF a.err # "" THEN a
    ELSE Res([b EXCEPT !.liquid = @ + amount], "")

\* faulty variant: the handle on the locked amounts is dropped before returning
Fungible_lock_amount_Released(b, amount) ==
    LET a == Acquire(b, "LockedFungible")
        t == Fungible_take(a.b, LockDelta(b, amount))
    IN  IF a.err # "" THEN a
        ELSE IF LockDelta(b, amount) > 0 /\ t.err # "" THEN t
        ELSE Res(lock_amount(b, amount), IF amount = 0 THEN "ProofError" ELSE "")

\* FungibleBucket::lock_amount / FungibleVault::lock_amount: the handle on
\* the locked amounts is still open when the body returns
Fungible_lock_amount(b, amount) ==
    LET a == Acquire(b, "LockedFungible")
        t == Fungible_take(a.b, LockDelta(b, amount))
    IN  IF a.err # "" THEN a
        ELSE IF LockDelta(b, amount) > 0 /\ t.err # "" THEN t
        ELSE Res(lock_amount(a.b, amount), IF amount = 0 THEN "ProofError" ELSE "")

\* FungibleBucket::unlock_amount / FungibleVault::unlock_amount
Fungible_unlock_amount(b, amount) ==
    LET a == Acquire(b, "LockedFungible")
        u == unlock_amount(a.b, amount)
        p == Fungible_put([a.b EXCEPT !.locked = u.locked], u.liquid - b.liquid)
    IN  IF a.err # "" THEN a
        ELSE IF amount \notin DOMAIN b.locked THEN Res(a.b, "Panic")
        ELSE p

\* the first n ids in the order of the BTreeSet / BTreeMap
RECURSIVE FirstN(_, _)
FirstN(S, n) ==
    IF n <= 0 \/ S = {} THEN {}
    ELSE LET m == CHOOSE x \in S : \A y \in S : x <= y
         IN  {m} \cup FirstN(S \ {m}, n - 1)

\* locked.ids.entry(id).or_default().add_assign(1) for each id of S
AddIdLocks(locked, S) ==
    [i \in DOMAIN locked \cup S |->
        (IF i \in DOMAIN locked THEN locked[i] ELSE 0) + (IF i \in S THEN 1 ELSE 0)]

\* locked.ids.remove(&id); if cnt > 1 { insert(id, cnt - 1) } for each id of S
RemoveIdLocks(locked, S) ==
    [i \in {j \in DOMAIN locked : j \notin S \/ locked[j] > 1} |->
        IF i \in S THEN locked[i] - 1 ELSE locked[i]]

\* the resource a body took, with the container after it
ResIds(b, e, ids) == [b |-> b, err |-> e, ids |-> ids]

\* NonFungibleBucket::take
NonFungible_take(b, amount) ==
    LET a == Acquire(b, "LiquidNonFungible")
        taken == FirstN(b.ids, amount)
    IN  IF a.err # "" THEN ResIds(b, a.err, {})
        ELSE IF amount > Cardinality(b.ids) THEN ResIds(a.b, "ResourceError", {})
        ELSE ResIds([b EXCEPT !.ids = @ \ taken], "", taken)

\* NonFungibleBucket::take_non_fungibles
NonFungible_take_non_fungibles(b, ids) ==
    LET a == Acquire(b, "LiquidNonFungible") IN
    IF a.err # "" THEN ResIds(b, a.err, {})
    ELSE IF ~(ids \subseteq b.ids) THEN ResIds(a.b, "ResourceError", {})
    ELSE ResIds([b EXCEPT !.ids = @ \ ids], "", ids)

\* NonFungibleBucket::put
NonFungible_put(b, ids) ==
    LET a == Acquire(b, "LiquidNonFungible") IN
    IF ids = {} THEN Res(b, "")
    ELSE IF a.err # "" THEN a
    ELSE Res([b EXCEPT !.ids = @ \cup ids], "")

\* NonFungibleBucket::lock_amount
NonFungible_lock_amount(b, amount) ==
    LET a == Acquire(b, "LockedNonFungible")
        max_locked == Cardinality(DOMAIN b.locked_ids)
        t == NonFungible_take(a.b, amount - max_locked)
        held == IF amount > max_locked
                THEN [i \in DOMAIN b.locked_ids \cup t.ids |->
                         IF i \in DOMAIN b.locked_ids THEN b.locked_ids[i] ELSE 0]
                ELSE b.locked_ids
        after == IF amount > max_locked THEN t.b ELSE a.b
        ids_for_proof == FirstN(DOMAIN held, amount)
    IN  IF a.err # "" THEN a
        ELSE IF amount > max_locked /\ t.err # "" THEN Res(t.b, t.err)
        ELSE IF amount < 0 THEN Res([after EXCEPT !.locked_ids = held], "Panic")
        ELSE Res([after EXCEPT !.locked_ids = AddIdLocks(held, ids_for_proof)],
                 IF ids_for_proof = {} THEN "ProofError" ELSE "")

\* faulty variant: the ids are locked and stay in the liquid set
NonFungible_lock_non_fungibles_NoTake(b, ids) ==
    LET a == Acquire(b, "LockedNonFungible") IN
    IF a.err # "" THEN a
    ELSE IF ~(ids \subseteq b.ids \cup DOMAIN b.locked_ids) THEN Res(a.b, "ResourceError")
    ELSE Res([a.b EXCEPT !.locked_ids = AddIdLocks(@, ids)],
             IF ids = {} THEN "ProofError" ELSE "")

\* NonFungibleBucket::lock_non_fungibles
NonFungible_lock_non_fungibles(b, ids) ==
    LET a == Acquire(b, "LockedNonFungible")
        t == NonFungible_take_non_fungibles(a.b, ids \ DOMAIN b.locked_ids)
    IN  IF a.err # "" THEN a
        ELSE IF t.err # "" THEN Res(t.b, t.err)
        ELSE Res([t.b EXCEPT !.locked_ids = AddIdLocks(@, ids)],
                 IF ids = {} THEN "ProofError" ELSE "")

\* NonFungibleBucket::unlock_non_fungibles: the loop removes the ids in
\* order and panics at the first one that is not locked
NonFungible_unlock_non_fungibles(b, ids) ==
    LET a == Acquire(b, "LockedNonFungible")
        bad == ids \ DOMAIN b.locked_ids
        done == IF bad = {} THEN ids ELSE {i \in ids : \A j \in bad : i < j}
        after == RemoveIdLocks(b.locked_ids, done)
        p == NonFungible_put([a.b EXCEPT !.locked_ids = after], done \ DOMAIN after)
    IN  IF a.err # "" THEN a
        ELSE IF bad # {} THEN Res([a.b EXCEPT !.locked_ids = after], "Panic")
        ELSE p

\* ---------------------------------------------------------- write_substate
MaxWrites == 3      \* writes of one frame
WriteNodes == {"vault1", "vault2", "store", "bucket"}
NodeKind(n) ==
    IF n = "bucket" THEN "bucket" ELSE IF n = "store" THEN "kvstore" ELSE "vault"

\* owned: the frame's owned_values; stored: the value_ids of the substate's
\* current value; data: the write that stored the current value (0: none);
\* created: the node ids handed out; then the last write: its error, its
\* inputs, and the substate and the owned values before it
NoWrites ==
    [owned |-> {}, stored |-> {}, data |-> 0, created |-> {}, err |-> "", count |-> 0,
     ids |-> {}, can_own |-> TRUE, afford |-> TRUE, visible |-> TRUE,
     old |-> {}, old_data |-> 0, had |-> {}]

\* faulty variant: only the references to unknown nodes are refused
verify_stored_value_update_NoRemovedCheck(old, missing) ==
    IF \E missing_id \in missing : missing_id \notin old THEN "ValueNotFound"
    ELSE ""

\* verify_stored_value_update
verify_stored_value_update(old, missing) ==
    IF \E old_id \in old : old_id \notin missing THEN "StoredValueRemoved"
    ELSE IF \E missing_id \in missing : missing_id \notin old THEN "ValueNotFound"
    ELSE ""

\* take_available_values(value_ids, true): the values the frame owns are
\* taken, the others are missing; a value that may not be kept in a substate
\* ends the call
take_available_values(owned, value_ids) ==
    [err |-> IF \E id \in value_ids \cap owned :
                    ~verify_can_persist([kind |-> NodeKind(id)])
             THEN "ValueNotAllowed" ELSE "",
     taken |-> value_ids \cap owned,
     missing |-> value_ids \ owned]

\* CallFrame::write_substate on a substate that may be written
\* (verify_can_write); afford: the cost of the write can be consumed;
\* can_own: substate_id.can_own_nodes(); visible: read_value_internal finds
\* the substate's node visible. The result is the frame and the substate
\* after the call and its error.
write_substate(w, value_ids, can_own, afford, visible) ==
    LET t == take_available_values(w.owned, value_ids)
        e == IF ~afford THEN "CostingError"
             ELSE IF value_ids # {} /\ ~can_own THEN "ValueNotAllowed"
             ELSE IF t.err # "" THEN t.err
             ELSE IF ~visible THEN "InvalidDataAccess"
             ELSE verify_stored_value_update(w.stored, t.missing)
    IN  IF e # "" THEN [w EXCEPT !.err = e]
        ELSE [w EXCEPT !.owned = @ \ t.taken, !.stored = value_ids,
                       !.data = w.count + 1, !.err = ""]

\* ------------------------------------------------- execution trace module
max_kernel_call_depth_traced == 1

\* ExecutionTraceModule::new. inputs is traced_kernel_call_inputs_stack (each
\* entry: the origin and whether the traced input holds a resource), traces
\* counts the entries of kernel_call_traces_stacks per depth; panic is the
\* message of the panic that stopped the module ("" while it runs).
ExecutionTraceModule(max) ==
    [max_kernel_call_depth_traced |-> max,
     current_kernel_call_depth |-> 0,
     inputs |-> <<>>,
     traces |-> [d \in {} |-> 0],
     vault_ops |-> <<>>,
     resource_changes |-> {},
     fee_locks |-> [lock |-> 0, contingent_lock |-> 0],
     finalized |-> FALSE,
     panic |-> ""]

NoCalls ==
    [open |-> <<>>, hooks |-> 0, plain |-> 0, contingent |-> 0, locks |-> 0,
     fee_payments |-> <<>>, is_success |-> TRUE]

Init ==
    /\ frames = <<RootFrame>>
    /\ heap = AllDead
    /\ nextBucket = 0
    /\ nextProof = 0
    /\ locks = [s \in SubstateIds |-> Unlocked]
    /\ txv = [v \in Vaults |-> [res |-> VaultResource(v), liquid |-> StoreLiquid(v),
                                locked |-> NoAmounts]]
    /\ base = txv
    /\ touched = {}
    /\ fee = on_init([consumed |-> 0, deferred |-> 0, locks |-> <<>>])
    /\ outcome = "running"
    /\ err = ""
    /\ committed = [v \in Vaults |-> StoreLiquid(v)]
    /\ hist = [sent |-> {}, returned |-> {}, put |-> {}, carried |-> {},
               written |-> {}, queried |-> {}, cleared |-> {},
               failed |-> [fn |-> "", node |-> "", amt |-> 0]]
    /\ parent = [n \in HeapIds |-> ""]
    /\ trace = ExecutionTraceModule(max_kernel_call_depth_traced)
    /\ calls = NoCalls
    /\ gen = NewGenerator
    /\ bkt = NoContainer
    /\ obs = NoInvocation
    /\ wr = NoWrites

\* the inputs a manifest or a component body may choose
VaultAmounts(fn) ==
    IF fn \in {"take", "recall", "lock_fee", "create_proof_by_amount"} THEN Amounts ELSE {0}
VaultFlags(fn) == IF fn = "lock_fee" THEN BOOLEAN ELSE {FALSE}
BucketAmounts(fn) == IF fn = "take" THEN Amounts ELSE {0}
PutArgs(fn) == IF fn = "put" THEN {{b} : b \in Top.owned \cap BucketIds} ELSE {{}}

\* the kernel of this model runs with the execution trace module disabled
Untraced == UNCHANGED <<trace, calls, gen, bkt, obs, wr>>

\* the body of withdraw takes from the component's vault and returns, and a
\* body that has instantiated a component globalizes it and returns (the
\* Globalize blueprint of tests/kernel_globalize.rs); the other bodies make
\* any call
OpenBody ==
    /\ Running /\ Top.fn # "withdraw"
    /\ \A c \in NewComponentIds : heap[c].kind = "dead"

Next ==
    \/ InvokeTransactionProcessor /\ Untraced /\ UNCHANGED parent
    \/ /\ OpenBody /\ Top.kind \in {"txproc", "scrypto"}
       /\ \E c \in Components, fn \in Methods, args \in ArgSets(Nameable) :
            /\ fn = "withdraw" => args = {}
            /\ CallMethod(c, fn, args)
       /\ Untraced /\ UNCHANGED parent
    \/ /\ OpenBody /\ Top.kind \in {"txproc", "scrypto"}
       /\ \E args \in ArgSets(Nameable) : CallFunction(args)
       /\ Untraced /\ UNCHANGED parent
    \/ /\ OpenBody /\ Top.kind \in {"txproc", "scrypto"}
       /\ \E p \in Top.owned \cap ProofIds : PushToAuthZone(p)
       /\ Untraced /\ UNCHANGED parent
    \/ /\ Running /\ Top.kind = "scrypto"
       /\ \E v \in VaultsInReach, fn \in VaultFns :
            /\ v \in HeapVaultIds => fn = "lock_fee"
            /\ Top.fn = "withdraw" => fn = "take"
            /\ \E amt \in VaultAmounts(fn), flag \in VaultFlags(fn), args \in PutArgs(fn) :
                    InvokeVault(v, fn, amt, flag, args)
       /\ Untraced /\ UNCHANGED parent
    \/ RunVault /\ Untraced /\ UNCHANGED parent
    \/ OpenBody /\ (\E r \in Resources : InvokeResource(r)) /\ Untraced /\ UNCHANGED parent
    \/ RunResource /\ Untraced /\ UNCHANGED parent
    \/ OpenBody /\ CreateKvStore /\ Untraced /\ UNCHANGED parent
    \/ /\ OpenBody /\ Top.kind \in {"txproc", "scrypto"}
       /\ \E b \in BucketIds, fn \in BucketFns :
            \E amt \in BucketAmounts(fn), args \in PutArgs(fn) :
                InvokeBucket(b, fn, amt, args)
       /\ Untraced /\ UNCHANGED parent
    \/ RunBucket /\ Untraced /\ UNCHANGED parent
    \/ OpenBody /\ (\E n \in BucketIds \cup ProofIds : InvokeConsumed(n)) /\ Untraced /\ UNCHANGED parent
    \/ RunConsumed /\ Untraced /\ UNCHANGED parent
    \/ /\ Running /\ Top.kind = "scrypto"
       /\ \E rets \in ArgSets(Nameable) : ScryptoReturn(rets)
       /\ Untraced /\ UNCHANGED parent
    \/ ScryptoFail /\ Untraced /\ UNCHANGED parent
    \/ TxReturn /\ Untraced /\ UNCHANGED parent
    \/ /\ Running /\ Top.kind = "scrypto"
       /\ \E children \in ArgSets(Top.owned) : CreateComponent(children)
       /\ Untraced
    \/ /\ Running /\ Top.kind = "scrypto"
       /\ \E id \in Globalizable : GlobalizeNode(id)
       /\ Untraced

Spec == Init /\ [][Next]_vars

\* ------------------------------------------ execution trace module: hooks
Panic(t, msg) == [t EXCEPT !.panic = msg]

\* the comparison `current_kernel_call_depth > max_kernel_call_depth_traced`
\* on usize: a counter that wrapped below zero (held here as a negative
\* number) is a huge unsigned value
over_limit(t) ==
    \/ t.current_kernel_call_depth < 0
    \/ t.current_kernel_call_depth > t.max_kernel_call_depth_traced

\* `self.current_kernel_call_depth -= 1`: at 0 a build with overflow checks
\* panics and a build without them wraps
decrement_depth(t) ==
    IF t.current_kernel_call_depth = 0
    THEN {Panic(t, "attempt to subtract with overflow"),
          [t EXCEPT !.current_kernel_call_depth = -1]}
    ELSE {[t EXCEPT !.current_kernel_call_depth = @ - 1]}

push_input(t, origin, input) ==
    IF over_limit(t) THEN t ELSE [t EXCEPT !.inputs = Append(@, <<origin, input>>)]

TracesAt(t, d) == IF d \in DOMAIN t.traces THEN t.traces[d] ELSE 0

\* finalize_kernel_call_trace: the child traces are taken from depth + 1, the
\* traced input is popped, and a trace is kept at this depth if its input,
\* its output or its children are non-empty
finalize_kernel_call_trace(t, output) ==
    LET d == t.current_kernel_call_depth
        children == TracesAt(t, d + 1)
        removed == [k \in DOMAIN t.traces \ {d + 1} |-> t.traces[k]]
    IN  IF t.inputs = <<>> THEN Panic(t, "kernel call input stack underflow")
        ELSE LET input == t.inputs[Len(t.inputs)][2]
                 popped == [t EXCEPT !.inputs = SubSeq(@, 1, Len(@) - 1),
                                     !.traces = removed]
             IN  IF input > 0 \/ output > 0 \/ children > 0
                 THEN [popped EXCEPT !.traces =
                         [k \in DOMAIN removed \cup {d} |->
                             IF k = d THEN TracesAt(popped, d) + 1 ELSE removed[k]]]
                 ELSE popped

\* the part of the three closing handlers after the counter was decremented
close_kernel_call(t, output) ==
    IF t.panic # "" \/ over_limit(t) THEN t ELSE finalize_kernel_call_trace(t, output)

handle_before_create_node(t) ==
    [push_input(t, "CreateNode", 0) EXCEPT !.current_kernel_call_depth = @ + 1]

handle_after_create_node(t, resource_summary) ==
    {close_kernel_call(d, resource_summary) : d \in decrement_depth(t)}

handle_before_drop_node(t, resource_summary) ==
    [push_input(t, "DropNode", resource_summary) EXCEPT !.current_kernel_call_depth = @ + 1]

handle_after_drop_node(t) ==
    {close_kernel_call(d, 0) : d \in decrement_depth(t)}

\* FungibleVaultLockFeeInput { amount, contingent }
LockFeeAmounts == {1, 2}
LockFeeInputs == [amount : LockFeeAmounts, contingent : BOOLEAN]
\* a value that is valid SBOR but not a FungibleVaultLockFeeInput
Malformed == [amount |-> 1]

\* the vaults of the traced calls and the node of the traced components
TraceVaults == {"vault1", "vault2"}
\* TraceActor::from_actor: Method(node_id) for a method, here the node a
\* component or a vault, NonMethod for every other actor
from_actor(actor) ==
    IF actor.kind = "Method" THEN (IF actor.vault THEN "Method(vault)" ELSE "Method(component)")
    ELSE "NonMethod"

\* IndexedScryptoValue::as_typed
as_typed(args) == IF args \in LockFeeInputs THEN <<"Ok", args>> ELSE <<"Err", "DecodeError">>

\* a resource summary is the amount of the one bucket it holds, 0 if none
\* an entry of vault_ops: the operation, its amount, the contingent flag of a
\* LockFee, the TraceActor and the vault (all of one instruction and, Put and
\* Take, of one resource)
handle_vault_put_input(t, resource_summary, caller, vault_id) ==
    IF resource_summary > 0
    THEN [t EXCEPT !.vault_ops =
            Append(@, <<"Put", resource_summary, FALSE, from_actor(caller), vault_id>>)]
    ELSE t

handle_vault_lock_fee_input(t, caller, vault_id, args) ==
    LET input == as_typed(args)
    IN  IF input[1] = "Err"
        THEN Panic(t, "called Result::unwrap() on an Err value")
        ELSE [t EXCEPT !.vault_ops =
                Append(@, <<"LockFee", input[2].amount, input[2].contingent,
                            from_actor(caller), vault_id>>)]

\* actor is the TraceActor of the caller of the frame that finished
handle_vault_take_output(t, resource_summary, actor, vault_id) ==
    IF resource_summary > 0
    THEN [t EXCEPT !.vault_ops =
            Append(@, <<"Take", resource_summary, FALSE, actor, vault_id>>)]
    ELSE t

\* the callee actors: kind, whether its blueprint is a vault, method ident
Actor(kind, vault, ident) == [kind |-> kind, vault |-> vault, ident |-> ident]
Callees ==
    {Actor("Method", FALSE, "method"), Actor("Method", TRUE, "put"),
     Actor("Method", TRUE, "take"), Actor("Method", TRUE, "lock_fee"),
     Actor("Function", FALSE, "function"), Actor("VirtualLazyLoad", FALSE, "")}

\* node_id is the node of the callee, a vault when the callee is a vault method
handle_before_push_frame(t, current_actor, callee, node_id, resource_summary, args) ==
    IF ~over_limit(t) /\ callee.kind \in {"VirtualLazyLoad", "Root"} THEN t
    ELSE LET counted == [push_input(t, callee.kind, resource_summary)
                            EXCEPT !.current_kernel_call_depth = @ + 1]
         IN  IF callee.kind = "Method" /\ callee.vault /\ callee.ident = "put"
             THEN handle_vault_put_input(counted, resource_summary, current_actor, node_id)
             ELSE IF callee.kind = "Method" /\ callee.vault /\ callee.ident = "lock_fee"
             THEN handle_vault_lock_fee_input(counted, current_actor, node_id, args)
             ELSE counted

\* node_id is the node of the actor that finished, caller the TraceActor of
\* its caller
handle_on_execution_finish(t, current_actor, node_id, caller, resource_summary) ==
    IF current_actor.kind = "VirtualLazyLoad" THEN {t}
    ELSE LET taken ==
                IF current_actor.kind = "Method" /\ current_actor.vault
                   /\ current_actor.ident = "take"
                THEN handle_vault_take_output(t, resource_summary, caller, node_id)
                ELSE t
         IN  {close_kernel_call(d, resource_summary) : d \in decrement_depth(taken)}

RECURSIVE calculate_fee_locks_Unflagged(_)
calculate_fee_locks_Unflagged(vault_ops) ==
    IF vault_ops = <<>> THEN [lock |-> 0, contingent_lock |-> 0]
    ELSE LET rest == calculate_fee_locks_Unflagged(Tail(vault_ops))
             op == Head(vault_ops)
         IN  IF op[1] = "LockFee" THEN [rest EXCEPT !.lock = @ + op[2]] ELSE rest

RECURSIVE calculate_fee_locks(_)
calculate_fee_locks(vault_ops) ==
    IF vault_ops = <<>> THEN [lock |-> 0, contingent_lock |-> 0]
    ELSE LET rest == calculate_fee_locks(Tail(vault_ops))
             op == Head(vault_ops)
         IN  IF op[1] = "LockFee"
             THEN IF ~op[3] THEN [rest EXCEPT !.lock = @ + op[2]]
                  ELSE [rest EXCEPT !.contingent_lock = @ + op[2]]
             ELSE rest

\* the fee payments: what each vault paid of the fee, for the vaults that paid
PaidBy(fee_payments, vault_id) ==
    IF vault_id \in DOMAIN fee_payments THEN fee_payments[vault_id] ELSE 0

\* the signed amount one operation adds to the change of its actor and vault
OpDelta(op, fee_payments) ==
    IF op[1] = "Put" THEN op[2]
    ELSE IF op[1] = "Take" THEN 0 - op[2]
    ELSE 0 - PaidBy(fee_payments, op[5])

RECURSIVE SumDeltas(_, _, _, _)
SumDeltas(vault_ops, node_id, vault_id, fee_payments) ==
    IF vault_ops = <<>> THEN 0
    ELSE LET op == Head(vault_ops)
         IN  (IF op[4] = node_id /\ op[5] = vault_id THEN OpDelta(op, fee_payments) ELSE 0)
             + SumDeltas(Tail(vault_ops), node_id, vault_id, fee_payments)

IsLockFee(op) == op[1] = "LockFee"

\* faulty variant: the puts and takes are kept whatever the outcome
calculate_resource_changes_KeepAll(vault_ops, fee_payments, is_commit_success) ==
    {[node_id |-> op[4], vault_id |-> op[5],
      amount |-> SumDeltas(vault_ops, op[4], op[5], fee_payments)] :
        op \in {vault_ops[i] : i \in {j \in DOMAIN vault_ops :
                    /\ vault_ops[j][4] # "NonMethod"
                    /\ SumDeltas(vault_ops, vault_ops[j][4], vault_ops[j][5],
                                 fee_payments) # 0}}}

\* calculate_resource_changes: after a transaction that did not commit
\* successfully only the LockFee operations are kept; the operations of a
\* method actor are added up per actor and vault, and the sums that are not
\* zero are the resource changes
calculate_resource_changes(vault_ops, fee_payments, is_commit_success) ==
    LET retained == IF is_commit_success THEN vault_ops
                    ELSE SelectSeq(vault_ops, IsLockFee)
    IN  {[node_id |-> op[4], vault_id |-> op[5],
          amount |-> SumDeltas(retained, op[4], op[5], fee_payments)] :
            op \in {retained[i] : i \in {j \in DOMAIN retained :
                        /\ retained[j][4] # "NonMethod"
                        /\ SumDeltas(retained, retained[j][4], retained[j][5],
                                     fee_payments) # 0}}}

\* ----------------------------------- execution trace module: hook sequences
MaxHooks == 3      \* kernel calls begun in one transaction
MaxOpen == 3       \* kernel calls in progress at once
MaxPaid == 1       \* the most a vault pays of the fee

\* how a create node and a drop node in progress are written in calls.open
CreateNode == Actor("CreateNode", FALSE, "")
DropNode == Actor("DropNode", FALSE, "")

Tracing == trace.panic = "" /\ ~trace.finalized
OpenCalls == Len(calls.open)
Innermost == calls.open[OpenCalls]
\* create node and drop node make no kernel call between their two hooks
MayOpen ==
    /\ Tracing /\ calls.hooks < MaxHooks /\ OpenCalls < MaxOpen
    /\ OpenCalls > 0 => Innermost \in Callees
Opened(c) == [calls EXCEPT !.open = Append(@, c), !.hooks = @ + 1]
Closed == [calls EXCEPT !.open = SubSeq(@, 1, Len(@) - 1)]
Summaries == {0, 1}
ArgsOf(callee) ==
    IF callee.vault /\ callee.ident = "lock_fee" THEN LockFeeInputs \cup {Malformed}
    ELSE {[amount |-> 0]}
\* the node of a callee: one of the vaults for a vault method
NodesOf(callee) == IF callee.vault THEN TraceVaults ELSE {"component"}
\* the actor of the frame that makes a call, and of the frame that made the
\* call that finishes: the root frame when no call is open
RootActor == Actor("Root", FALSE, "")
CurrentActor == IF OpenCalls > 0 THEN Innermost ELSE RootActor
CallerOfInnermost == IF OpenCalls > 1 THEN calls.open[OpenCalls - 1] ELSE RootActor
\* what the recorded lock_fee operations locked on a vault
RECURSIVE LockedOn(_, _)
LockedOn(vault_ops, vault_id) ==
    IF vault_ops = <<>> THEN 0
    ELSE (IF IsLockFee(Head(vault_ops)) /\ Head(vault_ops)[5] = vault_id
          THEN Head(vault_ops)[2] ELSE 0) + LockedOn(Tail(vault_ops), vault_id)
\* the fee payments a transaction with these operations can end with: a
\* vault pays at most what was locked on it
FeePayments(vault_ops) ==
    {p \in [TraceVaults -> 0..MaxPaid] :
        \A v \in TraceVaults : p[v] <= LockedOn(vault_ops, v)}

before_create_node ==
    /\ MayOpen
    /\ trace' = handle_before_create_node(trace)
    /\ calls' = Opened(CreateNode)
    /\ UNCHANGED vars

after_create_node ==
    /\ Tracing /\ OpenCalls > 0 /\ Innermost = CreateNode
    /\ \E resource_summary \in Summaries :
            trace' \in handle_after_create_node(trace, resource_summary)
    /\ calls' = Closed
    /\ UNCHANGED vars

before_drop_node ==
    /\ MayOpen
    /\ \E resource_summary \in Summaries :
            trace' = handle_before_drop_node(trace, resource_summary)
    /\ calls' = Opened(DropNode)
    /\ UNCHANGED vars

after_drop_node ==
    /\ Tracing /\ OpenCalls > 0 /\ Innermost = DropNode
    /\ trace' \in handle_after_drop_node(trace)
    /\ calls' = Closed
    /\ UNCHANGED vars

\* the methods of a vault push no frame (fungible_vault.rs: they lock fields
\* and create and drop nodes)
before_push_frame ==
    /\ MayOpen
    /\ OpenCalls > 0 => ~Innermost.vault
    /\ \E callee \in Callees, resource_summary \in Summaries :
        \E args \in ArgsOf(callee), node_id \in NodesOf(callee) :
            /\ trace' = handle_before_push_frame(trace, CurrentActor, callee, node_id,
                                                 resource_summary, args)
            /\ calls' =
                IF callee.ident = "lock_fee" /\ args \in LockFeeInputs
                THEN [Opened(callee) EXCEPT
                        !.locks = @ + 1,
                        !.plain = @ + (IF args.contingent THEN 0 ELSE args.amount),
                        !.contingent = @ + (IF args.contingent THEN args.amount ELSE 0)]
                ELSE Opened(callee)
    /\ UNCHANGED vars

on_execution_finish ==
    /\ Tracing /\ OpenCalls > 0 /\ Innermost \in Callees
    /\ \E resource_summary \in Summaries, node_id \in NodesOf(Innermost) :
            trace' \in handle_on_execution_finish(trace, Innermost, node_id,
                                                  from_actor(CallerOfInnermost),
                                                  resource_summary)
    /\ calls' = Closed
    /\ UNCHANGED vars

\* ExecutionTraceModule::finalize, when the transaction has ended
finalize ==
    /\ Tracing /\ OpenCalls = 0 /\ calls.hooks > 0
    /\ \E fee_payments \in FeePayments(trace.vault_ops), is_success \in BOOLEAN :
        /\ trace' = [trace EXCEPT
                        !.fee_locks = calculate_fee_locks(trace.vault_ops),
                        !.resource_changes =
                            calculate_resource_changes(trace.vault_ops, fee_payments,
                                                       is_success),
                        !.finalized = TRUE]
        /\ calls' = [calls EXCEPT !.fee_payments = fee_payments,
                                  !.is_success = is_success]
    /\ UNCHANGED vars

TraceNext ==
    \/ before_create_node
    \/ after_create_node
    \/ before_drop_node
    \/ after_drop_node
    \/ before_push_frame
    \/ on_execution_finish
    \/ finalize

SpecTrace == Init /\ [][TraceNext]_<<vars, trace, calls>>

\* ------------------------------------------- manifest generator: the loop
Declared(i, r) ==
    \/ UsesBucket(i) /\ i.use \in DOMAIN r.named_buckets
    \/ UsesProof(i) /\ i.use \in DOMAIN r.named_proofs

Live(i, r, v) ==
    \/ UsesBucket(i) /\ i.use \in DOMAIN r.named_buckets
                     /\ r.named_buckets[i.use] \in DOMAIN v.bucket_ids
    \/ UsesProof(i) /\ i.use \in DOMAIN r.named_proofs
                    /\ r.named_proofs[i.use] \in DOMAIN v.proof_ids

\* one turn of the loop of generate_manifest: the first error ends the loop
GenerateInstruction(i) ==
    /\ gen.err = "" /\ gen.output < MaxInstructions
    /\ LET st == generate_instruction(i, gen.resolver, gen.validator)
       IN  gen' = [resolver |-> st.resolver, validator |-> st.validator,
                   output |-> IF st.err = "" THEN gen.output + 1 ELSE gen.output,
                   err |-> st.err, last |-> i, id |-> st.id,
                   declared |-> Declared(i, gen.resolver),
                   live |-> Live(i, gen.resolver, gen.validator)]
    /\ UNCHANGED <<kernel, trace, calls, bkt, obs, wr>>

ManifestNext == \E i \in Instructions : GenerateInstruction(i)

SpecManifest == Init /\ [][ManifestNext]_<<vars, trace, calls>>

\* ------------------------------- bucket and vault blueprints: invocations
\* the end of an invocation: the body's result is kept, the handles it left
\* open are noted, and the kernel drops them or not.
Finish(op, arg, r, o) ==
    /\ bkt' = IF bkt.drops THEN [r.b EXCEPT !.handles = {}] ELSE r.b
    /\ obs' = [(IF r.err = "" THEN o ELSE obs) EXCEPT
                  !.op = op, !.arg = arg, !.err = r.err,
                  !.leaked = r.b.handles, !.count = obs.count + 1]
    /\ UNCHANGED <<kernel, trace, calls, gen, wr>>

Invocable == bkt.type # "" /\ obs.err = "" /\ obs.count < MaxOps

\* new_object(BUCKET_BLUEPRINT, ..) / a vault of a fungible resource
CreateContainer(holder, type, amount, ids, drops) ==
    /\ bkt.type = ""
    /\ holder = "vault" => type = "fungible"
    /\ bkt' = [NoContainer EXCEPT
                  !.type = type, !.holder = holder, !.drops = drops,
                  !.liquid = IF type = "fungible" THEN amount ELSE 0,
                  !.ids = IF type = "fungible" THEN {} ELSE ids]
    /\ obs' = [NoInvocation EXCEPT
                  !.total = IF type = "fungible" THEN amount ELSE 0,
                  !.all = IF type = "fungible" THEN {} ELSE ids]
    /\ UNCHANGED <<kernel, trace, calls, gen, wr>>

\* faulty variant: the bucket put back is dropped without being added
PutBody_Dropped(b, amount, ids) == Res(b, "")

\* BucketBlueprint::put / FungibleVaultBlueprint::put after the resource check
PutBody(b, amount, ids) ==
    IF ReadError(b, "Info") # "" THEN Res(b, "LockError")
    ELSE IF b.type = "fungible" THEN Fungible_put(b, amount)
    ELSE NonFungible_put(b, ids)

\* BucketBlueprint::take / FungibleVaultBlueprint::take
TakeBody(b, amount) ==
    IF ReadError(b, "Info") # "" THEN ResIds(b, "LockError", {})
    ELSE IF amount < 0 THEN ResIds(b, "InvalidAmount", {})
    ELSE IF b.type = "fungible"
    THEN LET t == Fungible_take(b, amount) IN ResIds(t.b, t.err, {})
    ELSE NonFungible_take(b, amount)

Take(amount) ==
    /\ Invocable
    /\ LET r == TakeBody(bkt, amount)
       IN  Finish("take", amount, r,
                  [obs EXCEPT !.total = @ - (IF bkt.type = "fungible" THEN amount ELSE 0),
                              !.all = @ \ r.ids,
                              !.taken = IF bkt.type = "fungible" THEN amount ELSE 0,
                              !.taken_ids = r.ids,
                              !.before = bkt.liquid, !.before_ids = bkt.ids])

\* the bucket the last take handed out is put back (return_to_worktop)
Return ==
    /\ Invocable /\ obs.op = "take"
    /\ Finish("return", obs.taken, PutBody(bkt, obs.taken, obs.taken_ids),
              [obs EXCEPT !.total = @ + obs.taken, !.all = @ \cup obs.taken_ids,
                          !.taken = 0, !.taken_ids = {}])

\* faulty variant: the resource addresses are compared before the bucket
\* offered is dropped
put_CheckFirst(b, same, amount, ids) ==
    IF b.holder = "bucket" /\ ReadError(b, "Info") # ""
        THEN Res([b EXCEPT !.offered = "kept"], "LockError")
    ELSE IF ~same THEN Res([b EXCEPT !.offered = "kept"], "MismatchingResource")
    ELSE PutBody([b EXCEPT !.offered = "dropped"], amount, ids)

\* BucketBlueprint::put / FungibleVaultBlueprint::put: kernel_drop_node of the
\* bucket offered, then the comparison of the resource addresses (same: the
\* bucket offered is of the receiver's resource), then the put
put(b, same, amount, ids) ==
    LET d == [b EXCEPT !.offered = "dropped"] IN
    IF b.holder = "bucket" /\ ReadError(b, "Info") # "" THEN Res(d, "LockError")
    ELSE IF ~same THEN Res(d, "MismatchingResource")
    ELSE PutBody(d, amount, ids)

\* another bucket, of the receiver's resource or of another one, is put in
Put(same, amount, ids) ==
    /\ Invocable
    /\ IF bkt.type = "fungible" \/ ~same THEN amount = 1 /\ ids = {}
       ELSE amount = 0 /\ ids # {} /\ ids \cap (obs.all \cup obs.taken_ids) = {}
    /\ Finish("put", amount, put(bkt, same, amount, ids),
              [obs EXCEPT !.total = @ + amount, !.all = @ \cup ids])

\* BucketBlueprint::get_amount / FungibleVaultBlueprint::get_amount
GetAmountError(b) ==
    IF b.holder = "bucket" /\ ReadError(b, "Info") # "" THEN "LockError"
    ELSE IF b.type = "fungible"
    THEN (IF ReadError(b, "LiquidFungible") # "" \/ ReadError(b, "LockedFungible") # ""
          THEN "LockError" ELSE "")
    ELSE (IF ReadError(b, "LiquidNonFungible") # "" \/ ReadError(b, "LockedNonFungible") # ""
          THEN "LockError" ELSE "")

Amount(b) ==
    IF b.type = "fungible" THEN get_amount(b)
    ELSE Cardinality(b.ids) + Cardinality(DOMAIN b.locked_ids)

GetAmount ==
    /\ Invocable
    /\ Finish("get_amount", Amount(bkt), Res(bkt, GetAmountError(bkt)), obs)

\* BucketBlueprint::create_proof / FungibleVaultBlueprint::create_proof
CreateProofBody(b) ==
    IF GetAmountError(b) # "" THEN Res(b, "LockError")
    ELSE IF b.type = "fungible" THEN Fungible_lock_amount(b, Amount(b))
    ELSE NonFungible_lock_amount(b, Amount(b))

CreateProof ==
    /\ Invocable
    /\ Finish("create_proof", Amount(bkt), CreateProofBody(bkt),
              [obs EXCEPT !.out = IF bkt.type = "fungible" THEN AddLock(@, Amount(bkt))
                                  ELSE @])

\* BucketBlueprint::lock_amount / FungibleVaultBlueprint::lock_amount: the
\* fungible substates, whatever the resource type; no check of the amount
LockAmount(amount) ==
    /\ Invocable
    /\ Finish("lock_amount", amount, Fungible_lock_amount(bkt, amount),
              [obs EXCEPT !.out = AddLock(@, amount),
                          !.negative = @ \/ amount < 0])

\* BucketBlueprint::unlock_amount / FungibleVaultBlueprint::unlock_amount
UnlockAmount(amount) ==
    /\ Invocable
    /\ Finish("unlock_amount", amount, Fungible_unlock_amount(bkt, amount),
              [obs EXCEPT !.out = IF amount \in DOMAIN @ THEN RemoveLock(@, amount) ELSE @])

\* BucketBlueprint::lock_non_fungibles
LockNonFungibles(ids) ==
    /\ Invocable /\ bkt.holder = "bucket"
    /\ Finish("lock_non_fungibles", Cardinality(ids),
              NonFungible_lock_non_fungibles(bkt, ids), obs)

\* BucketBlueprint::unlock_non_fungibles
UnlockNonFungibles(ids) ==
    /\ Invocable /\ bkt.holder = "bucket"
    /\ Finish("unlock_non_fungibles", Cardinality(ids),
              NonFungible_unlock_non_fungibles(bkt, ids), obs)

\* FungibleVaultBlueprint::lock_fee on a vault of RADIX_TOKEN; the fee
\* reserve keeps the whole amount (credit_cost_units returns no change)
LockFeeBody(b, amount) ==
    LET a == Acquire(b, "LiquidFungible") IN
    IF amount < 0 THEN Res(b, "InvalidAmount")
    ELSE IF a.err # "" THEN a
    ELSE IF ~CanTakeByAmount(b.liquid, amount) THEN Res(a.b, "LockFeeInsufficientBalance")
    ELSE Res([b EXCEPT !.liquid = @ - amount], "")

LockFee(amount) ==
    /\ Invocable /\ bkt.holder = "vault"
    /\ Finish("lock_fee", amount, LockFeeBody(bkt, amount),
              [obs EXCEPT !.total = @ - amount])

ContainerNext ==
    \/ \E holder \in {"bucket", "vault"}, type \in {"fungible", "non_fungible"},
          amount \in 0..MaxAmount, ids \in SUBSET NonFungibleIds, drops \in BOOLEAN :
            /\ type = "fungible" => ids = {}
            /\ type = "non_fungible" => amount = 0
            /\ CreateContainer(holder, type, amount, ids, drops)
    \/ \E amount \in OpAmounts : Take(amount)
    \/ Return
    \/ \E same \in BOOLEAN, amount \in {0, 1}, ids \in SUBSET NonFungibleIds :
          Put(same, amount, ids)
    \/ GetAmount
    \/ CreateProof
    \/ \E amount \in OpAmounts : LockAmount(amount)
    \/ \E amount \in OpAmounts : UnlockAmount(amount)
    \/ \E ids \in SUBSET NonFungibleIds : LockNonFungibles(ids)
    \/ \E ids \in SUBSET NonFungibleIds : UnlockNonFungibles(ids)
    \/ \E amount \in OpAmounts : LockFee(amount)

SpecContainer == Init /\ [][ContainerNext]_<<vars, trace, calls>>

\* ------------------------------------------------ write_substate: the frame
\* create_node: the frame comes to own a new vault, key-value store or bucket
create_node(n) ==
    /\ wr.err = "" /\ n \notin wr.created
    /\ wr' = [wr EXCEPT !.owned = @ \cup {n}, !.created = @ \cup {n}]
    /\ UNCHANGED <<kernel, trace, calls, gen, bkt, obs>>

\* a write of a value that names the nodes value_ids; a RuntimeError ends
\* the transaction
WriteSubstate(value_ids, can_own, afford, visible) ==
    /\ wr.err = "" /\ wr.count < MaxWrites
    /\ wr' = [write_substate(wr, value_ids, can_own, afford, visible) EXCEPT
                 !.count = wr.count + 1, !.ids = value_ids, !.can_own = can_own,
                 !.afford = afford, !.visible = visible,
                 !.old = wr.stored, !.old_data = wr.data, !.had = wr.owned]
    /\ UNCHANGED <<kernel, trace, calls, gen, bkt, obs>>

WriteNext ==
    \/ \E n \in WriteNodes : create_node(n)
    \/ \E value_ids \in SUBSET WriteNodes, can_own, afford, visible \in BOOLEAN :
          WriteSubstate(value_ids, can_own, afford, visible)

SpecWrite == Init /\ [][WriteNext]_<<vars, trace, calls>>

\* ------------------------------------------------------------ observations
RECURSIVE SumOf(_, _)
SumOf(f, S) ==
    IF S = {} THEN 0
    ELSE LET x == CHOOSE y \in S : TRUE IN f[x] + SumOf(f, S \ {x})

VaultsOf(r) == {v \in Vaults : VaultResource(v) = r}
InitialSupply(r) == SumOf([v \in Vaults |-> StoreLiquid(v)], VaultsOf(r))
VaultHeld(r) == SumOf([v \in Vaults |-> get_amount(txv[v])], VaultsOf(r))
BucketHeld(r) ==
    SumOf([b \in BucketIds |-> get_amount(heap[b])],
          {b \in BucketIds : heap[b].kind = "bucket" /\ heap[b].res = r})
FeeLocked(r) ==
    IF r = RADIX_TOKEN THEN SumLocks(fee.locks, FALSE) + SumLocks(fee.locks, TRUE) ELSE 0
CommittedSupply(r) == SumOf(committed, VaultsOf(r))
FeeDebited(r) == IF r = RADIX_TOKEN THEN FeeDue(fee) ELSE 0

C2_AtMostOneMutableLock ==
    \A s \in SubstateIds : locks[s].mut <= 1 /\ (locks[s].mut = 1 => locks[s].read = 0)

\* two frames on the stack each hold a mutable lock, and a third substate
\* is read-locked by both
C2_Witness ==
    /\ Running
    /\ locks[StateOf("CA")].mut = 1
    /\ locks[StateOf("CB")].mut = 1
    /\ locks["VB"].mut = 1
    /\ locks[PackageId].read = 2


RECURSIVE LockedBy(_, _)
LockedBy(ls, v) ==
    IF ls = <<>> THEN 0
    ELSE (IF Head(ls).vault = v THEN Head(ls).amount ELSE 0) + LockedBy(Tail(ls), v)

Ended == outcome # "running"
Committed == outcome \in {"success", "failure"}

\* C3 (amended): every fee lock that succeeded is written through to the
\* base state at once and stays there whatever happens later; and when the
\* transaction is not rejected (the locks repaid the loan), the committed
\* balances show the fee debit even after a later runtime error.
C3_ForceWriteDurability ==
    /\ \A v \in Vaults : base[v].liquid = StoreLiquid(v) - LockedBy(fee.locks, v)
    /\ (fee.locks # <<>> /\ Committed) =>
          /\ FeeDue(fee) > 0
          /\ CommittedSupply(RADIX_TOKEN) = InitialSupply(RADIX_TOKEN) - FeeDue(fee)

\* C3 as stated: once a LockFee succeeded the committed balances show a fee
\* debit whatever the outcome.
C3_Original ==
    (fee.locks # <<>> /\ Ended) => CommittedSupply(RADIX_TOKEN) < InitialSupply(RADIX_TOKEN)

\* a runtime error after a successful LockFee on A's vault: the debit is committed
C3_Witness ==
    /\ outcome = "failure"
    /\ err = "InvokeError"
    /\ LockedBy(fee.locks, "VA") > 0
    /\ committed["VA"] < StoreLiquid("VA")

\* vaults with a fee lock that is debited under the given result
Payers(success) ==
    {fee.locks[i].vault : i \in {j \in 1..Len(fee.locks) : success \/ ~fee.locks[j].contingent}}

\* C4: a commit-failure keeps nothing but the fee debit: every vault that
\* pays no fee has its initial balance, whatever was withdrawn from or
\* deposited into it before the error, and the fee-paying vaults together
\* are reduced by exactly the fee (price times consumed cost units).
C4_FailureKeepsOnlyFee ==
    outcome = "failure" =>
        /\ \A v \in Vaults \ Payers(FALSE) : committed[v] = StoreLiquid(v)
        /\ \A r \in Resources : CommittedSupply(r) = InitialSupply(r) - FeeDebited(r)

\* a failure after a withdrawal from A was deposited into B
C4_Witness ==
    /\ outcome = "failure"
    /\ "VB" \in hist.put
    /\ Payers(FALSE) = {"VA"}
    /\ committed["VB"] = StoreLiquid("VB")
    /\ committed["VA"] = StoreLiquid("VA") - FeeDue(fee)

Owners(n) == {i \in 1..Len(frames) : n \in frames[i].owned \cup frames[i].zone}

\* C5: when a frame ends while it still owns a non-empty bucket that it
\* does not hand to its caller, the transaction ends without success; and a
\* transaction that committed successfully left no bucket alive.
C5_NoPhantomResources ==
    /\ [][\A b \in BucketIds :
            (/\ Running /\ Top.kind \in {"scrypto", "txproc", "consumed"}
             /\ b \in Top.owned /\ get_amount(heap[b]) # 0
             /\ Len(frames') < Len(frames)
             /\ \A i \in 1..Len(frames') : b \notin frames'[i].owned)
            => outcome' \in {"failure", "rejected"}]_vars
    /\ [](outcome = "success" => \A b \in BucketIds : heap[b].kind = "dead")

\* a component method returned while it owned a non-empty bucket
C5_Witness ==
    /\ outcome = "failure"
    /\ err = "DropFailure"
    /\ hist.failed.fn = "return"

\* C6: no frame is started for a component whose substate is locked mutably
\* by a frame on the stack, and the invocation that reaches the locking of
\* such a component fails with ComponentReentrancy.
C6_ComponentReentrancy ==
    /\ [][\A c \in Components :
            (/\ Running
             /\ locks[StateOf(c)].mut > 0 \/ locks[InfoOf(c)].mut > 0
             /\ Len(frames') > Len(frames))
            => ~(frames'[Len(frames')].kind = "scrypto" /\ frames'[Len(frames')].node = c)]_vars
    /\ [](\A c \in Components :
            (/\ Ended /\ hist.failed.fn = "call" /\ hist.failed.node = c
             /\ locks[StateOf(c)].mut > 0
             /\ err \notin {"MaxCallDepthLimitReached", "CostingError",
                            "KeyValueStoreNotAllowed", "VaultNotAllowed",
                            "ValueNotFound", "CantMove", "AuthorizationError"})
            => err = "ComponentReentrancy")

\* a call into a component already on the stack was refused
C6_Witness ==
    /\ Ended
    /\ err = "ComponentReentrancy"
    /\ hist.failed.fn = "call"
    /\ locks[StateOf(hist.failed.node)].mut = 1


TakeFns == {"take", "recall", "lock_fee"}
ContainerOf(f) == IF f.kind = "vault" THEN txv[f.node] ELSE heap[f.node]
AmountErrors == {"InvalidAmount", "ResourceError", "LockFeeInsufficientBalance",
                 "LockFeeNotRadixToken"}

Unit(r) == Pow10(DecimalScale - Divisibility(r))
Scaled(c) ==
    /\ c.liquid % Unit(c.res) = 0
    /\ \A a \in DOMAIN c.locked : a % Unit(c.res) = 0

C9_SingleOwner ==
    Running =>
        \A n \in HeapIds :
            Cardinality(Owners(n)) = IF heap[n].kind = "dead" \/ parent[n] # "" THEN 0 ELSE 1

\* a bucket taken in A's method, returned to the transaction processor and
\* passed on to B's method, which owns it now
C9_Witness ==
    /\ Running
    /\ Top.kind = "scrypto" /\ Top.node = "CB"
    /\ \E b \in Top.owned : heap[b].kind = "bucket" /\ heap[b].liquid > 0
    /\ \E p \in ProofIds : heap[p].kind = "proof" /\ Owners(p) = {2}

\* C10 (amended): a live proof is restricted exactly when it has been moved
\* into another frame as a call argument; a proof handed back as a return
\* value keeps the state it had.
C10_RestrictedWhenSent ==
    \A p \in ProofIds : heap[p].kind = "proof" => (heap[p].restricted <=> p \in hist.sent)

\* C10 as stated: a live proof is restricted exactly when it has crossed a
\* frame boundary, as a call argument or as a return value.
C10_Original ==
    \A p \in ProofIds :
        heap[p].kind = "proof" => (heap[p].restricted <=> p \in hist.sent \cup hist.returned)

\* a proof a method returned unrestricted and that became restricted when
\* it was passed to another method
C10_Witness ==
    \E p \in ProofIds :
        /\ heap[p].kind = "proof"
        /\ p \in hist.returned /\ p \in hist.sent
        /\ heap[p].restricted


StoreIds == HeapVaultIds \cup KvStoreIds

\* C11: no frame starts owning a key-value store or a vault, so none crosses
\* in call arguments; a frame that ends hands a vault to its caller only when
\* it is a resource manager's, and a key-value store never; and a call or a
\* return whose data names one fails with KeyValueStoreNotAllowed or
\* VaultNotAllowed (a call only after the depth and cost checks passed).
C11_StoresStayInFrame ==
    /\ [][Len(frames') > Len(frames)
            => frames'[Len(frames')].owned \cap StoreIds = {}]_vars
    /\ [][(Running /\ Len(frames') = Len(frames) - 1 /\ Len(frames') > 0)
            => \A n \in StoreIds :
                 (n \in frames'[Len(frames')].owned /\ n \notin frames[Len(frames')].owned)
                 => (n \in HeapVaultIds /\ Top.kind = "resource")]_vars
    /\ [](/\ Ended /\ hist.failed.fn \in {"call", "return"}
          /\ hist.carried \cap (StoreIds \cup Vaults) # {}
          /\ err \notin {"MaxCallDepthLimitReached", "CostingError"}
          => err = IF hist.carried \cap KvStoreIds # {} THEN "KeyValueStoreNotAllowed"
                   ELSE "VaultNotAllowed")

\* a vault that a resource manager returned to a component method, which
\* then tried to return it to its own caller
C11_Witness ==
    /\ Ended
    /\ err = "VaultNotAllowed"
    /\ hist.failed.fn = "return"
    /\ hist.carried \cap HeapVaultIds # {}
    /\ hist.carried \subseteq hist.returned


\* C12 as stated: once a RuntimeError has ended the transaction, no substate
\* lock is held in the track.
C12_Original ==
    (Ended /\ err \notin {"", "LoanNotRepaid"}) => \A s \in SubstateIds : locks[s] = Unlocked

\* a vault method failed in its body: the vault, its resource manager and the
\* calling component are still locked after the error
C12_Witness ==
    /\ Ended
    /\ err = "InvalidAmount"
    /\ hist.failed.node \in Vaults
    /\ locks[hist.failed.node].mut = 1
    /\ locks[StateOf(VaultOwner(hist.failed.node))].mut = 1


\* 10^-18 XRD, the smallest non-zero amount
SmallestAmount == Unit(RADIX_TOKEN)
SystemLoan == CostUnitPrice * SystemLoanUnits

\* C13: a transaction that ends with less non-contingent fee locked than the
\* system loan costs is rejected, whatever it did: with no fee lock at all,
\* with contingent locks only, or with a lock of the smallest amount.
C13_UnpaidLoanRejected ==
    (Ended /\ SumLocks(fee.locks, FALSE) < SystemLoan) => outcome = "rejected"

\* the manifest ended after one successful lock_fee of the smallest amount
C13_Witness ==
    /\ outcome = "rejected"
    /\ err = "LoanNotRepaid"
    /\ Len(fee.locks) = 1
    /\ fee.locks[1].amount = SmallestAmount /\ ~fee.locks[1].contingent
    /\ SmallestAmount < SystemLoan


\* C14: after a rejection every vault has the balance it had before the
\* transaction, also a vault whose lock_fee had succeeded and was written
\* through to the base state.
C14_RejectionChangesNothing ==
    outcome = "rejected" => \A v \in Vaults : committed[v] = StoreLiquid(v)

\* a lock_fee on A's vault succeeded and was force-written, a later error
\* rejected the transaction
C14_Witness ==
    /\ outcome = "rejected"
    /\ err \notin {"", "LoanNotRepaid"}
    /\ LockedBy(fee.locks, "VA") > 0
    /\ base["VA"].liquid < StoreLiquid("VA")
    /\ committed["VA"] = StoreLiquid("VA")


TouchedError == "PayFeeError(ValueAlreadyTouched)"
DepthOrCostError == {"MaxCallDepthLimitReached", "CostingError"}
FailedLockFee(v) == Ended /\ hist.failed.fn = "lock_fee" /\ hist.failed.node = v

\* C15 (amended): a lock_fee succeeds only on a vault whose substate was not
\* written earlier in the transaction; a lock_fee on a stored vault that gets
\* past the depth and cost checks fails with the touched-base error exactly
\* when the vault was written earlier; that failure rejects the transaction
\* while the loan is unpaid and is a commit-failure once it is repaid.  A
\* vault that was only queried can lock the fee (the witness).
C15_LockFeeNeedsUntouchedBase ==
    /\ [][Len(fee'.locks) > Len(fee.locks) => Top.node \notin hist.written]_vars
    /\ [](\A v \in Vaults :
            FailedLockFee(v) =>
                /\ err = TouchedError <=> (v \in hist.written /\ err \notin DepthOrCostError)
                /\ err = TouchedError =>
                     outcome = IF Repaid(fee) THEN "failure" ELSE "rejected")

\* C15 as stated: a lock_fee on a vault written earlier fails with the
\* touched-base error and the transaction is rejected.
C15_Original ==
    \A v \in Vaults :
        (FailedLockFee(v) /\ v \in hist.written /\ err \notin DepthOrCostError)
            => (err = TouchedError /\ outcome = "rejected")

\* a vault was queried and then locked the fee; after a take from it a
\* second lock_fee on it failed
C15_Witness ==
    /\ FailedLockFee("VA")
    /\ err = TouchedError
    /\ "VA" \in hist.queried /\ "VA" \in hist.written
    /\ LockedBy(fee.locks, "VA") > 0


NotInTrackError == "PayFeeError(ValueNotInTrack)"

\* C16 (amended): no fee is ever locked from a vault that is on the heap; a
\* lock_fee on such a vault that gets past the depth and cost checks fails
\* with the value-not-in-track error, which rejects the transaction while
\* the loan is unpaid and is a commit-failure once it is repaid.
C16_NoFeeFromHeapVault ==
    /\ [][Len(fee'.locks) > Len(fee.locks) => Top.node \in Vaults]_vars
    /\ [](\A i \in 1..Len(fee.locks) : fee.locks[i].vault \in Vaults)
    /\ [](\A v \in HeapVaultIds :
            (FailedLockFee(v) /\ err \notin DepthOrCostError)
                => /\ err = NotInTrackError
                   /\ outcome = IF Repaid(fee) THEN "failure" ELSE "rejected")

\* C16 as stated: a lock_fee on a vault of the heap fails and the
\* transaction is rejected.
C16_Original ==
    \A v \in HeapVaultIds :
        (FailedLockFee(v) /\ err \notin DepthOrCostError)
            => (err = NotInTrackError /\ outcome = "rejected")

\* a method created a vault and tried to lock the fee from it before any
\* fee was locked
C16_Witness ==
    /\ \E v \in HeapVaultIds : FailedLockFee(v) /\ v \in hist.returned
    /\ err = NotInTrackError
    /\ outcome = "rejected"
    /\ fee.locks = <<>>


Balances == {0, 10, 20}
AVault(r, liquid, locked) == [res |-> r, liquid |-> liquid, locked |-> locked]

\* C17: a lock_fee whose body runs on a vault of another resource than XRD
\* fails with LockFeeNotRadixToken whatever the amount, the flag and the
\* vault's liquid and locked balance; nothing is taken from the vault and no
\* fee lock ever names such a vault.
C17_LockFeeNotRadixToken ==
    /\ [](\A a \in Amounts \cup {0}, l \in Balances, k \in {0} \cup Amounts :
            VaultError("lock_fee",
                       AVault(OtherToken, l, IF k > 0 THEN AddLock(NoAmounts, k) ELSE NoAmounts),
                       a, DeadNode) = "LockFeeNotRadixToken")
    /\ [][(Running /\ Top.kind = "vault" /\ Top.fn = "lock_fee"
             /\ VaultResource(Top.node) # RADIX_TOKEN)
            => (/\ err' = "LockFeeNotRadixToken"
                /\ outcome' \in {"failure", "rejected"}
                /\ fee' = fee /\ base' = base
                /\ committed'[Top.node] = StoreLiquid(Top.node))]_vars
    /\ [](\A i \in 1..Len(fee.locks) : VaultResource(fee.locks[i].vault) = RADIX_TOKEN)

\* a lock_fee of an amount the vault of the other resource could pay
C17_Witness ==
    /\ FailedLockFee("VT")
    /\ err = "LockFeeNotRadixToken"
    /\ hist.failed.amt = 10
    /\ committed["VT"] = StoreLiquid("VT")


\* the vaults all of whose fee locks are contingent
ContingentOnly ==
    {v \in Vaults : /\ \E i \in 1..Len(fee.locks) : fee.locks[i].vault = v
                    /\ \A i \in 1..Len(fee.locks) :
                         fee.locks[i].vault = v => fee.locks[i].contingent}

\* C18: after a commit-failure every vault whose fee locks were all
\* contingent has its pre-transaction balance, and when one vault made the
\* non-contingent locks, that vault is lower by the fee and by nothing else.
C18_ContingentNotDebitedOnFailure ==
    outcome = "failure" =>
        /\ \A v \in ContingentOnly : committed[v] = StoreLiquid(v)
        /\ \A a \in Vaults :
             Payers(FALSE) = {a} => committed[a] = StoreLiquid(a) - FeeDue(fee)

\* A locked the fee, B locked a contingent fee, then the transaction failed
C18_Witness ==
    /\ outcome = "failure"
    /\ Payers(FALSE) = {"VA"} /\ ContingentOnly = {"VB"}
    /\ committed["VB"] = StoreLiquid("VB")
    /\ committed["VA"] = StoreLiquid("VA") - FeeDue(fee)
    /\ FeeDue(fee) > 0

\* the amount the receipt takes from a vault's fee locks
Debited(v) == LockedBy(fee.locks, v) - (committed[v] - txv[v].liquid)

C20_Original ==
    (Ended /\ err = "MaxCallDepthLimitReached") => hist.failed.fn # "return"

\* one call more than MAX_CALL_DEPTH is refused
C20_Witness ==
    Ended /\ err = "MaxCallDepthLimitReached" /\ hist.failed.fn = "call"


\* C21: a transaction that ends with the max-call-depth error after its fee
\* locks repaid the loan is a commit-failure carrying that error, not a
\* rejection and not an abort.
C21_DepthErrorAfterLoanIsFailure ==
    (Ended /\ err = "MaxCallDepthLimitReached" /\ Repaid(fee))
        => outcome = "failure"

\* the loan was repaid, then one call too many was made
C21_Witness ==
    /\ outcome = "failure"
    /\ err = "MaxCallDepthLimitReached"
    /\ hist.failed.fn = "call"
    /\ Repaid(fee)

\* C22: a transaction that repaid the loan and then ran out of cost units is
\* a commit-failure, never a commit-success and never a rejection.
C22_CostErrorAfterLoanIsFailure ==
    /\ (Ended /\ err = "CostingError" /\ Repaid(fee)) => outcome = "failure"
    /\ outcome = "success" => fee.consumed <= Allowance(fee)

\* the loan was repaid and every cost unit of the budget was used before the
\* invocation that failed
C22_Witness ==
    /\ outcome = "failure"
    /\ err = "CostingError"
    /\ Repaid(fee)
    /\ fee.consumed = MaxCostUnits


\* what the receipt of a failed transaction takes from a vault's fee locks
FeePaidBy(v) ==
    LockedBy(fee.locks, v) - RefundOf(fee.locks, Paid(fee.locks, FeeDue(fee), FALSE), v)

\* the frame a step has just started, if it is one of a protected method
StartsProtected(c) ==
    /\ Len(frames') > Len(frames)
    /\ frames'[Len(frames')].kind = "scrypto"
    /\ frames'[Len(frames')].node = c
    /\ frames'[Len(frames')].fn = "withdraw"

\* C23: a protected method starts only when the auth zones consulted for
\* the call prove the badge its rule requires; a call that fails the rule
\* ends in AuthorizationError without a callee frame, and the transaction
\* it ends moves no resources: each vault keeps its balance less the fee
\* it paid.
C23_UnauthorizedCallFails ==
    /\ [][\A c \in Components :
            StartsProtected(c) => OwnerBadge(c) \in ZoneBadges(AuthZones, heap)]_vars
    /\ [][(Running /\ err' = "AuthorizationError")
            => /\ OwnerBadge(hist'.failed.node) \notin ZoneBadges(AuthZones, heap)
               /\ frames' = <<>>
               /\ outcome' \in {"failure", "rejected"}]_vars
    /\ []((Ended /\ err = "AuthorizationError")
            => \A v \in Vaults :
                 committed[v] = StoreLiquid(v) - (IF outcome = "failure"
                                                  THEN FeePaidBy(v) ELSE 0))

\* the transaction processor called withdraw on CB while no zone held a
\* proof of CB's badge: the signer's key is not the one the rule requires
C23_Witness ==
    /\ Ended
    /\ err = "AuthorizationError"
    /\ hist.failed.fn = "call" /\ hist.failed.node = "CB"
    /\ \A p \in ProofIds : p \notin hist.sent


\* a step in which the running frame, a component method or the
\* transaction processor, finishes normally
FrameFinishes ==
    /\ Running /\ Top.kind \in {"scrypto", "txproc"}
    /\ Len(frames') < Len(frames)
    /\ err' = ""

VaultBound == \E i \in 1..Len(fee.locks) : ~fee.locks[i].contingent

C26_TraceNeverPanics == trace.panic = ""

\* C26, the rest of it: in the hook sequences of well nested kernel calls the
\* only panic is the unwrap of lock_fee arguments that do not decode; the
\* input stack never underflows and the depth counter never goes below zero.
C26_OnlyUnwrapPanics ==
    trace.panic \in {"", "called Result::unwrap() on an Err value"}

\* C26: a transaction whose lock_fee calls all decode is traced to its end.
C26_Witness ==
    /\ trace.finalized /\ trace.panic = ""
    /\ calls.locks > 0

\* C27: the fee_locks of the finalized trace: lock is the sum of the amounts of
\* the lock_fee calls that were not contingent, contingent_lock the sum of the
\* amounts of the contingent ones, and every lock_fee call is one recorded
\* operation, so that it is counted in exactly one of the two totals.
LockFeeOps == {i \in DOMAIN trace.vault_ops : trace.vault_ops[i][1] = "LockFee"}
C27_FeeLocksAreSums ==
    trace.finalized =>
        /\ trace.fee_locks.lock = calls.plain
        /\ trace.fee_locks.contingent_lock = calls.contingent
        /\ Cardinality(LockFeeOps) = calls.locks

C27_Witness ==
    /\ trace.finalized
    /\ trace.fee_locks.lock = 2
    /\ trace.fee_locks.contingent_lock = 1
    /\ \E i \in DOMAIN trace.vault_ops : trace.vault_ops[i][1] # "LockFee"



\* C28 as stated: a second globalize of a node that was already globalized
\* comes back as an error.
GlobalizeFailed == Ended /\ hist.failed.fn = "globalize"
C28_Original ==
    (GlobalizeFailed /\ parent[hist.failed.node] = "track") => err # "Panic"

\* C28: a component was instantiated and globalized, and the function that did
\* it is still running.
C28_Witness ==
    /\ Running /\ Top.fn = "function"
    /\ \E c \in NewComponentIds : parent[c] = "track"

\* C29 as stated: globalize of a key-value store, bucket, proof or vault that
\* the frame holds (and that the cost units suffice for) ends in the error
\* RENodeGlobalizeTypeNotAllowed.
C29_Original ==
    (/\ GlobalizeFailed
     /\ hist.failed.node \in KvStoreIds \cup BucketIds \cup ProofIds \cup HeapVaultIds
     /\ err # "CostingError")
        => err = "RENodeGlobalizeTypeNotAllowed"

\* C29: the globalize of a bucket was reached and did not end in a costing error.
C29_Witness ==
    /\ GlobalizeFailed
    /\ hist.failed.node \in BucketIds
    /\ err # "CostingError"

C31_Original ==
    (gen.last.use # "" /\ ~gen.live)
        => gen.err \in {"NameResolverError(UndefinedBucket)",
                        "NameResolverError(UndefinedProof)"}

\* C31: a name that was never declared fails with a NameResolverError; a
\* declared name resolves to the id it was bound to for the rest of the
\* manifest, and when its bucket or proof was consumed the instruction fails
\* with the id validator's BucketNotFound or ProofNotFound error instead.
C31_ConsumedNameFailsIdValidation ==
    gen.last.use # "" =>
        /\ ~gen.declared =>
              gen.err = IF UsesBucket(gen.last) THEN "NameResolverError(UndefinedBucket)"
                        ELSE "NameResolverError(UndefinedProof)"
        /\ gen.declared =>
              /\ gen.id = IF UsesBucket(gen.last)
                          THEN gen.resolver.named_buckets[gen.last.use]
                          ELSE gen.resolver.named_proofs[gen.last.use]
              /\ gen.err \notin {"NameResolverError(UndefinedBucket)",
                                 "NameResolverError(UndefinedProof)"}
        /\ (gen.declared /\ ~gen.live) =>
              gen.err = IF UsesBucket(gen.last) THEN "IdValidationError(BucketNotFound)"
                        ELSE "IdValidationError(ProofNotFound)"

\* C31: a bucket name was used after an earlier instruction consumed its bucket.
C31_Witness ==
    /\ UsesBucket(gen.last) /\ gen.declared /\ ~gen.live
    /\ gen.err = "IdValidationError(BucketNotFound)"

\* C32: for a non-fungible bucket the liquid id set and the locked id set
\* are disjoint after every sequence of take, put, lock_amount,
\* lock_non_fungibles and unlock_non_fungibles invocations, failed ones
\* included.
C32_LiquidLockedDisjoint == bkt.ids \cap DOMAIN bkt.locked_ids = {}

\* C32: an unlock left one id locked (by a second proof) beside liquid ids.
C32_Witness ==
    /\ bkt.type = "non_fungible"
    /\ obs.op = "unlock_non_fungibles" /\ obs.err = ""
    /\ bkt.ids # {} /\ DOMAIN bkt.locked_ids # {}

\* C33: a take from the worktop's bucket of a resource followed by the put
\* of that same bucket leaves the holdings as they were before the take:
\* the liquid amount, the liquid ids and the amount the bucket reports.
C33_TakeThenReturn ==
    (obs.op = "return" /\ obs.err = "")
        => /\ bkt.liquid = obs.before
           /\ bkt.ids = obs.before_ids
           /\ (~obs.negative =>
                  Amount(bkt) = IF bkt.type = "fungible" THEN obs.total
                                ELSE Cardinality(obs.all))

\* C33: a bucket holding a positive amount was taken and put back.
C33_Witness ==
    /\ obs.op = "return" /\ obs.err = ""
    /\ bkt.type = "fungible" /\ obs.arg > 0 /\ bkt.liquid = obs.before

\* C34 (as stated): when take, put, lock_amount, unlock_amount, lock_fee or
\* create_proof returns, no lock handle that its body acquired is still
\* open, and no invocation is refused a lock.
C34_Original ==
    /\ (obs.op \in {"take", "put", "return", "lock_amount", "unlock_amount",
                    "lock_fee", "create_proof"} /\ obs.err = "")
            => obs.leaked = {}
    /\ obs.err # "LockError"

\* C34: a second create_proof on the same container was refused the lock on
\* the locked amounts that the first one left open.
C34_Witness ==
    /\ obs.op = "create_proof" /\ obs.err = "LockError"
    /\ bkt.type = "fungible" /\ "LockedFungible" \in bkt.handles
    /\ DOMAIN bkt.locked # {}

\* C35 (as stated): the amount a fungible container reports (liquid plus
\* the largest locked amount) is the amount it holds, whatever lock_amount
\* and unlock_amount calls were made, and when every lock has been undone
\* by an unlock of the same amount the liquid amount is the whole amount and
\* the locked amount is zero.
C35_Original ==
    bkt.type = "fungible" =>
        /\ get_amount(bkt) = obs.total
        /\ obs.out = NoAmounts => (bkt.liquid = obs.total /\ LockedAmount(bkt.locked) = 0)

\* C35, for amounts that are not negative: the same two statements hold
\* when no negative amount was ever locked.
C35_NonNegativeLocks ==
    (bkt.type = "fungible" /\ ~obs.negative) =>
        /\ get_amount(bkt) = obs.total
        /\ obs.out = NoAmounts => (bkt.liquid = obs.total /\ LockedAmount(bkt.locked) = 0)

\* C35: a lock of a negative amount was undone by its unlock and the
\* container holds less than before.
C35_Witness ==
    /\ bkt.type = "fungible" /\ obs.negative
    /\ obs.op = "unlock_amount" /\ obs.err = "" /\ obs.out = NoAmounts
    /\ bkt.liquid < obs.total


\* the errors of FungibleVaultBlueprint::lock_fee
LockFeeErrors == {"LockFeeNotRadixToken", "InvalidAmount", "LockFeeInsufficientBalance"}

\* a lock_fee frame whose vault is not an XRD vault, whose amount is not valid
\* or whose amount is more than the vault holds
LockFeeMustFail ==
    /\ Running /\ Top.kind = "vault" /\ Top.fn = "lock_fee"
    /\ \/ VaultResource(Top.node) # RADIX_TOKEN
       \/ ~check_amount(Top.amt, Divisibility(VaultResource(Top.node)))
       \/ ~CanTakeByAmount(txv[Top.node].liquid, Top.amt)

\* C36: a lock_fee that runs on a vault of another resource, with an invalid
\* amount or with more than the vault holds fails with one of the three
\* lock_fee errors and debits nothing: the vault's balance in the base state
\* (what a force-write changes) and in the transaction's view before the call
\* are what is left, the fee reserve has the locks it had, and the receipt
\* gives the vault its stored balance less what earlier locks on it paid.
C36_FailedLockFeeDebitsNothing ==
    [][LockFeeMustFail
        => (/\ err' \in LockFeeErrors
            /\ fee' = fee
            /\ base' = base
            /\ txv'[Top.node] = txv[Top.node]
            /\ committed'[Top.node] =
                 Receipt(outcome', txv, base, fee)[Top.node])]_vars

\* a lock_fee of more than vault VB holds, after a lock_fee that repaid the
\* loan from VA: the receipt keeps the first debit and VB's stored balance
C36_Witness ==
    /\ FailedLockFee("VB") /\ err = "LockFeeInsufficientBalance"
    /\ outcome = "failure"
    /\ Len(fee.locks) = 1 /\ fee.locks[1].vault = "VA"
    /\ committed["VB"] = StoreLiquid("VB")
    /\ base["VB"].liquid = StoreLiquid("VB")


\* a put that ended with MismatchingResource
MismatchedPut == obs.op = "put" /\ obs.err = "MismatchingResource"

\* C37 as stated: a put that fails with MismatchingResource leaves the
\* receiving bucket or vault with the content it had, and the bucket that was
\* offered still exists.
C37_Original ==
    [][MismatchedPut'
        => (/\ [bkt' EXCEPT !.offered = ""] = [bkt EXCEPT !.offered = ""]
            /\ bkt'.offered = "kept")]_<<bkt, obs>>

\* C37, the receiver's half: a put that fails with MismatchingResource leaves
\* the liquid and locked content of the receiving bucket or vault and its
\* open handles as they were.
C37_ReceiverUnchanged ==
    [][MismatchedPut'
        => [bkt' EXCEPT !.offered = ""] = [bkt EXCEPT !.offered = ""]]_<<bkt, obs>>

\* a bucket of another resource was offered to a holder that is not empty:
\* the put failed and the bucket offered is gone
C37_Witness ==
    /\ MismatchedPut
    /\ bkt.offered = "dropped"
    /\ Amount(bkt) > 0


\* the last write left out a child the substate stored
OmitsStored == wr.count > 0 /\ wr.old \ wr.ids # {}
\* the last write named a node that the frame did not own and the substate
\* did not store
NamesStranger == wr.count > 0 /\ wr.ids \ (wr.had \cup wr.old) # {}
\* the last write left the substate as it was
SubstateKept == wr.stored = wr.old /\ wr.data = wr.old_data
\* the last write got as far as verify_stored_value_update
ReachedVerify ==
    /\ wr.afford /\ wr.visible /\ (wr.ids = {} \/ wr.can_own)
    /\ \A n \in wr.ids \cap wr.had : verify_can_persist([kind |-> NodeKind(n)])

LeafPaired(t, callee) ==
    \A resource_summary \in Summaries, args \in ArgsOf(callee) :
        LET node_id == CHOOSE n \in NodesOf(callee) : TRUE
            pushed == handle_before_push_frame(t, CurrentActor, callee, node_id,
                                               resource_summary, args)
        IN  pushed.panic = "" =>
                \A done \in handle_on_execution_finish(pushed, callee, node_id,
                                                       from_actor(CurrentActor),
                                                       resource_summary) :
                    /\ done.panic = ""
                    /\ done.current_kernel_call_depth = t.current_kernel_call_depth
                    /\ done.inputs = t.inputs

\* C40 as stated: the depth counter never underflows, no finalisation finds
\* the input stack empty, and increments and decrements, pushes and pops are
\* paired for every kind of callee and at every depth: when all kernel calls
\* have returned the counter is zero and the input stack is empty, and a call
\* of any kind that is made and returns leaves both as they were.
C40_Original ==
    /\ trace.current_kernel_call_depth >= 0
    /\ trace.panic \notin {"attempt to subtract with overflow",
                           "kernel call input stack underflow"}
    /\ (Tracing /\ OpenCalls = 0)
          => trace.current_kernel_call_depth = 0 /\ trace.inputs = <<>>
    /\ Tracing => \A callee \in Callees : LeafPaired(trace, callee)

\* C40, the part that holds: in the hook sequences of well nested kernel
\* calls the counter never underflows and the input stack is never found
\* empty, and a method or function call that is made and returns leaves the
\* counter and the input stack as they were, within and beyond the traced
\* depth.
C40_NoUnderflow ==
    /\ trace.current_kernel_call_depth >= 0
    /\ trace.panic \notin {"attempt to subtract with overflow",
                           "kernel call input stack underflow"}
    /\ Tracing => \A callee \in Callees :
                      callee.kind \in {"Method", "Function"} => LeafPaired(trace, callee)

\* C40, the callee Root: a frame whose callee is Root, pushed and finished,
\* leaves the counter and the input stack as they were.
C40_RootPaired == Tracing => LeafPaired(trace, Actor("Root", FALSE, ""))

\* all kernel calls have returned, one of them a virtual lazy load beyond the
\* traced depth: the counter is not back at zero and an input was left on
\* the stack
C40_Witness ==
    /\ Tracing /\ OpenCalls = 0 /\ calls.hooks = 3
    /\ trace.current_kernel_call_depth = 1
    /\ Len(trace.inputs) = 1


\* the trace of a transaction that did not commit successfully
FailedTrace == trace.finalized /\ ~calls.is_success
\* the recorded lock_fee operations of a method actor on a vault
LockFeesOf(node_id, vault_id) ==
    {i \in DOMAIN trace.vault_ops :
        /\ IsLockFee(trace.vault_ops[i])
        /\ trace.vault_ops[i][4] = node_id /\ trace.vault_ops[i][5] = vault_id}

\* C39 as stated: when the transaction did not commit successfully, every
\* resource change is of a vault on which a fee was locked, is not zero, and
\* its amount is minus what that vault paid of the fee.
C39_Original ==
    FailedTrace =>
        \A change \in trace.resource_changes :
            /\ LockFeesOf(change.node_id, change.vault_id) # {}
            /\ change.amount # 0
            /\ change.amount = 0 - PaidBy(calls.fee_payments, change.vault_id)

\* C39, the part that holds: when the transaction did not commit
\* successfully the traced puts and takes leave no mark on the resource changes:
\* there is one change for each method actor and vault with a lock_fee call
\* and a fee paid by the vault, and none else; none is zero; its amount is
\* minus the vault's payment once for every lock_fee call of that actor on
\* that vault.
C39_OnlyFeeLockDebits ==
    FailedTrace =>
        /\ \A change \in trace.resource_changes :
            /\ change.node_id # "NonMethod"
            /\ change.amount # 0
            /\ change.amount = 0 - Cardinality(LockFeesOf(change.node_id, change.vault_id))
                                     * PaidBy(calls.fee_payments, change.vault_id)
        /\ \A i \in DOMAIN trace.vault_ops :
            LET op == trace.vault_ops[i]
            IN  (IsLockFee(op) /\ op[4] # "NonMethod"
                    /\ PaidBy(calls.fee_payments, op[5]) > 0)
                => \E change \in trace.resource_changes :
                        change.node_id = op[4] /\ change.vault_id = op[5]

\* a component locked a fee twice on one vault, the vault paid 1 and the
\* transaction failed: the one resource change is -2
C39_Witness ==
    /\ FailedTrace
    /\ PaidBy(calls.fee_payments, "vault1") = 1
    /\ Cardinality(LockFeesOf("Method(component)", "vault1")) = 2
    /\ trace.resource_changes =
         {[node_id |-> "Method(component)", vault_id |-> "vault1", amount |-> -2]}

\* a component put into a vault and locked a fee on it, the vault paid 1 and
\* the transaction failed: the put is left out and the change is the debit
C39_PutExcluded ==
    /\ FailedTrace
    /\ \E i \in DOMAIN trace.vault_ops :
            /\ trace.vault_ops[i][1] = "Put"
            /\ trace.vault_ops[i][4] = "Method(component)"
            /\ trace.vault_ops[i][5] = "vault1"
    /\ trace.resource_changes =
         {[node_id |-> "Method(component)", vault_id |-> "vault1", amount |-> -1]}

====
